---- MODULE Spec2Model ----
(***************************************************************************)
(* Built-in object subsystem of the engine: the registry of built-in       *)
(* singletons (ecma-builtins.c) and the lazy instantiation of the Global   *)
(* object's properties (ecma-builtin-global-object.c).                     *)
(*                                                                         *)
(* Objects live in heap cells; a cell's index is the object's identity     *)
(* (its address).  The allocator keeps one pool of MaxObjects cells for    *)
(* each built-in id and one for routine function objects, and a cell is    *)
(* recycled only after the collector has freed it.                         *)
(***************************************************************************)
EXTENDS Integers, Sequences, FiniteSets, TLC

\* ------------------------------------------------------------------ bounds
MaxObjects == 2   \* heap cells of one pool
MaxHeld == 2      \* owning references clients hold at a time, in all
MaxProps == 2     \* bits set in one object's lazy-instantiation mask
MaxKey == 4       \* largest id in the arrays given to the binary search
MaxArgs == 3      \* longest argument list given to a routine

\* --------------------------------------------------------------- constants
NULL == 0

VARIABLES
  compact_profile,       \* build flag CONFIG_ECMA_COMPACT_PROFILE
  ndebug,                \* build flag JERRY_NDEBUG (JERRY_ASSERT compiled out)
  engine,                \* host lifecycle: "stopped" or "running"
  heap,                  \* cell -> object
  ecma_builtin_objects,  \* the registry: built-in id -> cell or NULL
  held,                  \* cell -> owning references clients hold on it
  order,                 \* id -> its prototype's slot was filled when its own was
  fatal,                 \* "none", or how the process was aborted
  ret                    \* the last call and what it returned

vars == <<compact_profile, ndebug, engine, heap, ecma_builtin_objects, held,
          order, fatal, ret>>

\* ------------------------------------------------- the descriptor table
\* ECMA_BUILTIN_LIST: <<builtin_id, object_type, object_class,
\*                      object_prototype_builtin_id>>; "COUNT" is the
\* sentinel ECMA_BUILTIN_ID__COUNT (no prototype).
COUNT == "COUNT"

ECMA_BUILTIN_LIST ==
  << <<"OBJECT_PROTOTYPE",   "GENERAL",  "OBJECT_UL",   COUNT>>,
     <<"FUNCTION_PROTOTYPE", "FUNCTION", "FUNCTION_UL", "OBJECT_PROTOTYPE">>,
     <<"ARRAY_PROTOTYPE",    "ARRAY",    "ARRAY_UL",    "OBJECT_PROTOTYPE">>,
     <<"STRING_PROTOTYPE",   "GENERAL",  "STRING_UL",   "OBJECT_PROTOTYPE">>,
     <<"BOOLEAN_PROTOTYPE",  "GENERAL",  "BOOLEAN_UL",  "OBJECT_PROTOTYPE">>,
     <<"NUMBER_PROTOTYPE",   "GENERAL",  "NUMBER_UL",   "OBJECT_PROTOTYPE">>,
     <<"OBJECT",             "FUNCTION", "OBJECT_UL",   "FUNCTION_PROTOTYPE">>,
     <<"MATH",               "GENERAL",  "MATH_UL",     "OBJECT_PROTOTYPE">>,
     <<"ARRAY",              "FUNCTION", "ARRAY_UL",    "FUNCTION_PROTOTYPE">>,
     <<"STRING",             "FUNCTION", "STRING_UL",   "FUNCTION_PROTOTYPE">>,
     <<"BOOLEAN",            "FUNCTION", "BOOLEAN_UL",  "FUNCTION_PROTOTYPE">>,
     <<"NUMBER",             "FUNCTION", "NUMBER_UL",   "FUNCTION_PROTOTYPE">>,
     <<"FUNCTION",           "FUNCTION", "FUNCTION_UL", "FUNCTION_PROTOTYPE">>,
     <<"COMPACT_PROFILE_ERROR", "FUNCTION", "COMPACT_PROFILE_ERROR_UL",
                                                        "FUNCTION_PROTOTYPE">>,
     <<"GLOBAL",             "GENERAL",  "OBJECT_UL",   "OBJECT_PROTOTYPE">> >>

\* The ids of the build: COMPACT_PROFILE_ERROR exists under the compact
\* profile only.
BuiltinIds(cp) ==
  {ECMA_BUILTIN_LIST[i][1] : i \in 1..Len(ECMA_BUILTIN_LIST)}
    \ (IF cp THEN {} ELSE {"COMPACT_PROFILE_ERROR"})

AllBuiltinIds == BuiltinIds(TRUE)

Descriptor(id) ==
  LET i == CHOOSE j \in 1..Len(ECMA_BUILTIN_LIST) : ECMA_BUILTIN_LIST[j][1] = id
  IN  [type  |-> ECMA_BUILTIN_LIST[i][2],
       class |-> ECMA_BUILTIN_LIST[i][3],
       proto |-> ECMA_BUILTIN_LIST[i][4]]

\* ------------------------------------------------------------- the heap
\* The pools: one for each built-in id, in the order of the list, and one
\* for the routine function objects.
Pools == [i \in 1..Len(ECMA_BUILTIN_LIST) |-> ECMA_BUILTIN_LIST[i][1]] \o <<"ROUTINE">>

PoolCells(pool) ==
  LET i == CHOOSE j \in 1..Len(Pools) : Pools[j] = pool
  IN  ((i - 1) * MaxObjects + 1)..(i * MaxObjects)

Cells == 1..(Len(Pools) * MaxObjects)

\* A heap is a function from the allocated cells to their objects.
NewObject ==
  [prototype |-> NULL, is_builtin |-> FALSE, type |-> "NONE",
   refs |-> 0, class |-> "NONE", built_in_id |-> "NONE", prim |-> "NONE",
   routine_id |-> -1, mask |-> -1, props |-> <<>>]

FreeCells(h, pool) == PoolCells(pool) \ DOMAIN h

LowestFree(h, pool) ==
  CHOOSE c \in FreeCells(h, pool) : \A d \in FreeCells(h, pool) : c <= d

\* The machine state the C functions work on: the heap, the registry, the
\* order ghost, the abort state, allocation failure, the pointer or value
\* the last function returned, and the call ghost.
\* What a dispatched call did: the handler it reached, the values the
\* handler got as its formal parameters, the positions of the argument list
\* that were read, and the number cells allocated and freed.
NoCall ==
  [kind |-> "none", owner |-> "NONE", name |-> "NONE", formals |-> <<>>,
   reads |-> {}, allocs |-> 0, frees |-> 0]

Machine(h, objs, ord) ==
  [heap |-> h, objs |-> objs, order |-> ord, fatal |-> "none", oom |-> FALSE,
   new |-> NULL, out |-> NULL, res |-> "void", call |-> NoCall]

Dead(m) == m.fatal # "none" \/ m.oom

\* JERRY_ASSERT: aborts in a debug build, compiled out under JERRY_NDEBUG.
JERRY_ASSERT(m, cond) ==
  IF Dead(m) \/ ndebug \/ cond THEN m ELSE [m EXCEPT !.fatal = "assert"]

JERRY_UNREACHABLE(m) ==
  IF Dead(m) THEN m ELSE [m EXCEPT !.fatal = "unreachable"]

JERRY_UNIMPLEMENTED(m) ==
  IF Dead(m) THEN m ELSE [m EXCEPT !.fatal = "unimplemented"]

\* ecma_create_object: a new object with one reference (its creator's).
ecma_create_object(m, prototype_obj_p, is_builtin, type, pool) ==
  IF Dead(m) THEN m
  ELSE IF FreeCells(m.heap, pool) = {} THEN [m EXCEPT !.oom = TRUE]
  ELSE LET c == LowestFree(m.heap, pool)
       IN  [m EXCEPT !.heap = (c :> [NewObject EXCEPT !.prototype = prototype_obj_p,
                                                      !.is_builtin = is_builtin,
                                                      !.type = type,
                                                      !.refs = 1]) @@ @,
                     !.new = c]

ecma_ref_object(m, c) ==
  IF Dead(m) THEN m ELSE [m EXCEPT !.heap[c].refs = @ + 1]

ecma_deref_object(m, c) ==
  IF Dead(m) THEN m
  ELSE IF m.heap[c].refs = 0 THEN JERRY_ASSERT(m, FALSE)
  ELSE [m EXCEPT !.heap[c].refs = @ - 1]

\* ------------------------------------------------------- the registry
\* A function's return: the result is set unless the process has stopped.
Returns(m, res) == IF Dead(m) THEN m ELSE [m EXCEPT !.res = res]

\* [[PrimitiveValue]] of the built-in prototype objects.
PrimitiveValueOf(obj_builtin_id) ==
  CASE obj_builtin_id = "STRING_PROTOTYPE"  -> "EMPTY_STRING"
    [] obj_builtin_id = "NUMBER_PROTOTYPE"  -> "ZERO"
    [] obj_builtin_id = "BOOLEAN_PROTOTYPE" -> "FALSE"
    [] OTHER -> "NONE"

\* Faulty variant: the built-in id is not recorded.
InitObjectWithoutId(m1, obj_builtin_id, obj_class) ==
  IF Dead(m1) THEN m1
  ELSE [m1 EXCEPT !.heap[m1.new].class = obj_class,
                  !.heap[m1.new].is_builtin = TRUE,
                  !.heap[m1.new].prim = PrimitiveValueOf(obj_builtin_id)]

\* The internal properties of the new object m1.new: lines 101-148.
InitObjectProperties(m1, obj_builtin_id, obj_class) ==
  IF Dead(m1) THEN m1
  ELSE [m1 EXCEPT !.heap[m1.new].class = obj_class,
                  !.heap[m1.new].built_in_id = obj_builtin_id,
                  !.heap[m1.new].is_builtin = TRUE,
                  !.heap[m1.new].prim = PrimitiveValueOf(obj_builtin_id)]

ecma_builtin_init_object(m, obj_builtin_id, prototype_obj_p, obj_type, obj_class) ==
  InitObjectProperties(
    ecma_create_object(m, prototype_obj_p, TRUE, obj_type, obj_builtin_id),
    obj_builtin_id, obj_class)

RECURSIVE ecma_instantiate_builtin(_, _)

\* Faulty variant: the prototype is not instantiated.
InstantiateNoPrototype(m, object_prototype_builtin_id) == m

\* Lines 187-197: the prototype is instantiated first when its slot is empty.
InstantiatePrototype(m, object_prototype_builtin_id) ==
  IF object_prototype_builtin_id # COUNT /\ m.objs[object_prototype_builtin_id] = NULL
  THEN ecma_instantiate_builtin(m, object_prototype_builtin_id)
  ELSE m

\* Line 203: the new object m.new goes to the slot.
StoreBuiltin(m, id, object_prototype_builtin_id) ==
  IF Dead(m) THEN m
  ELSE [m EXCEPT !.objs[id] = m.new,
                 !.order[id] = (object_prototype_builtin_id = COUNT
                                  \/ m.objs[object_prototype_builtin_id] # NULL)]

\* Lines 196-203, with the prototype's slot filled.
InstantiateObject(m, id, d) ==
  StoreBuiltin(
    ecma_builtin_init_object(
      IF d.proto = COUNT THEN m ELSE JERRY_ASSERT(m, m.objs[d.proto] # NULL),
      id, IF d.proto = COUNT THEN NULL ELSE m.objs[d.proto], d.type, d.class),
    id, d.proto)

ecma_instantiate_builtin(m, id) ==
  IF Dead(m) THEN m
  ELSE IF id \notin BuiltinIds(compact_profile) THEN JERRY_UNREACHABLE(m)
  ELSE InstantiateObject(
         InstantiatePrototype(JERRY_ASSERT(m, m.objs[id] = NULL), Descriptor(id).proto),
         id, Descriptor(id))

\* Faulty variant: the object is instantiated whatever the slot holds.
InstantiateAlways(m, builtin_id) == ecma_instantiate_builtin(m, builtin_id)

\* if (ecma_builtin_objects [builtin_id] == NULL) ecma_instantiate_builtin (...)
InstantiateIfEmpty(m, builtin_id) ==
  IF m.objs[builtin_id] = NULL THEN ecma_instantiate_builtin(m, builtin_id) ELSE m

\* Faulty variant: compares the id the object records, not the identity.
IsRecordedId(m, obj_p, builtin_id) ==
  Returns(m, IF m.heap[obj_p].built_in_id = builtin_id THEN "true" ELSE "false")

\* Line 62: the comparison with the slot.
IsSameObject(m, obj_p, builtin_id) ==
  Returns(m, IF obj_p = m.objs[builtin_id] THEN "true" ELSE "false")

\* Faulty variant: an empty slot is left empty.
ecma_builtin_is_without_instantiation(m, obj_p, builtin_id) ==
  IsSameObject(JERRY_ASSERT(m, obj_p # NULL), obj_p, builtin_id)

ecma_builtin_is(m, obj_p, builtin_id) ==
  IsSameObject(InstantiateIfEmpty(JERRY_ASSERT(m, obj_p # NULL), builtin_id),
               obj_p, builtin_id)

\* Faulty variant: the caller's reference is not counted.
GetWithoutReference(m, builtin_id) ==
  IF Dead(m) THEN m ELSE [m EXCEPT !.out = m.objs[builtin_id]]

\* Lines 80-82: the caller's reference and the return.
GetReference(m, builtin_id) ==
  IF Dead(m) THEN m
  ELSE [ecma_ref_object(m, m.objs[builtin_id]) EXCEPT !.out = m.objs[builtin_id]]

ecma_builtin_get(m, builtin_id) ==
  GetReference(InstantiateIfEmpty(m, builtin_id), builtin_id)

ecma_init_builtins(m) ==
  [m EXCEPT !.objs = [id \in AllBuiltinIds |-> NULL]]

\* Lines 228-233: the slot of one id.
FinalizeSlot(m, id) ==
  IF m.objs[id] # NULL
  THEN [ecma_deref_object(m, m.objs[id]) EXCEPT !.objs[id] = NULL]
  ELSE m

\* The loop of ecma_finalize_builtins from the id at position i of the list.
RECURSIVE FinalizeFrom(_, _)
FinalizeFrom(m, i) ==
  IF i > Len(ECMA_BUILTIN_LIST) THEN m
  ELSE FinalizeFrom(FinalizeSlot(m, ECMA_BUILTIN_LIST[i][1]), i + 1)

\* Faulty variant: the references are released but the slots are kept.
ecma_finalize_builtins_keeping_slots(m) ==
  [m EXCEPT !.heap = [c \in DOMAIN m.heap |->
                        IF \E id \in AllBuiltinIds : m.objs[id] = c
                        THEN [m.heap[c] EXCEPT !.refs = @ - 1]
                        ELSE m.heap[c]]]

ecma_finalize_builtins(m) == FinalizeFrom(m, 1)


\* -------------------------------------------------------- magic strings
\* The interned strings in the order of their ids (the id is the position
\* less one).  Strings that are not interned have no id.
ECMA_MAGIC_STRINGS ==
  << "ARGUMENTS", "EVAL", "PROTOTYPE", "UNDEFINED", "NAN", "INFINITY_UL",
     "OBJECT_UL", "FUNCTION_UL", "ARRAY_UL", "STRING_UL", "BOOLEAN_UL",
     "NUMBER_UL", "DATE_UL", "REG_EXP_UL", "ERROR_UL", "EVAL_ERROR_UL",
     "RANGE_ERROR_UL", "REFERENCE_ERROR_UL", "SYNTAX_ERROR_UL",
     "TYPE_ERROR_UL", "URI_ERROR_UL", "MATH_UL", "JSON_U", "LENGTH",
     "PARSE_INT", "PARSE_FLOAT", "IS_NAN", "IS_FINITE", "DECODE_URI",
     "DECODE_URI_COMPONENT", "ENCODE_URI", "ENCODE_URI_COMPONENT",
     "COMPACT_PROFILE_ERROR_UL", "CALLER" >>

MagicNames == {ECMA_MAGIC_STRINGS[i] : i \in 1..Len(ECMA_MAGIC_STRINGS)}

MagicIdOf ==
  [n \in MagicNames |->
     (CHOOSE i \in 1..Len(ECMA_MAGIC_STRINGS) : ECMA_MAGIC_STRINGS[i] = n) - 1]

ecma_is_string_magic(name) == name \in MagicNames

MagicId(name) == MagicIdOf[name]

\* ------------------------------------------------- the Global object
GlobalNamesFull ==
  << "EVAL", "UNDEFINED", "NAN", "INFINITY_UL", "OBJECT_UL", "FUNCTION_UL",
     "ARRAY_UL", "STRING_UL", "BOOLEAN_UL", "NUMBER_UL", "DATE_UL",
     "REG_EXP_UL", "ERROR_UL", "EVAL_ERROR_UL", "RANGE_ERROR_UL",
     "REFERENCE_ERROR_UL", "SYNTAX_ERROR_UL", "TYPE_ERROR_UL", "URI_ERROR_UL",
     "MATH_UL", "JSON_U", "PARSE_INT", "PARSE_FLOAT", "IS_NAN", "IS_FINITE",
     "DECODE_URI", "DECODE_URI_COMPONENT", "ENCODE_URI",
     "ENCODE_URI_COMPONENT" >>

GlobalNamesCompact == Append(GlobalNamesFull, "COMPACT_PROFILE_ERROR_UL")

\* ecma_builtin_global_property_names, as names
GlobalPropertyNames(cp) == IF cp THEN GlobalNamesCompact ELSE GlobalNamesFull

GlobalIdsFull == [i \in 1..Len(GlobalNamesFull) |-> MagicId(GlobalNamesFull[i])]

GlobalIdsCompact == [i \in 1..Len(GlobalNamesCompact) |-> MagicId(GlobalNamesCompact[i])]

\* ecma_builtin_global_property_names, as magic string ids
ecma_builtin_global_property_names(cp) == IF cp THEN GlobalIdsCompact ELSE GlobalIdsFull

ecma_builtin_global_property_number(cp) == Len(GlobalPropertyNames(cp))

\* ECMA_BUILTIN_GLOBAL_OBJECT_ROUTINES_PROPERTY_LIST:
\* <<name, args_number, length>>
RoutineList ==
  << <<"EVAL", 1, 1>>, <<"PARSE_FLOAT", 1, 1>>, <<"IS_NAN", 1, 1>>,
     <<"IS_FINITE", 1, 1>>, <<"DECODE_URI", 1, 1>>,
     <<"DECODE_URI_COMPONENT", 1, 1>>, <<"ENCODE_URI", 1, 1>>,
     <<"ENCODE_URI_COMPONENT", 1, 1>>, <<"PARSE_INT", 2, 2>> >>

RoutineNames == {RoutineList[i][1] : i \in 1..Len(RoutineList)}

RoutineLength(name) ==
  RoutineList[CHOOSE i \in 1..Len(RoutineList) : RoutineList[i][1] = name][3]

\* The names whose case of the switch takes the object from the registry.
NamespaceId(name) ==
  CASE name = "OBJECT_UL"   -> "OBJECT"
    [] name = "MATH_UL"     -> "MATH"
    [] name = "STRING_UL"   -> "STRING"
    [] name = "BOOLEAN_UL"  -> "BOOLEAN"
    [] name = "NUMBER_UL"   -> "NUMBER"
    [] name = "ARRAY_UL"    -> "ARRAY"
    [] name = "FUNCTION_UL" -> "FUNCTION"
    [] name = "COMPACT_PROFILE_ERROR_UL" /\ compact_profile
                            -> "COMPACT_PROFILE_ERROR"
    [] OTHER -> "NONE"

\* Faulty variant: JSON has no case.
UnimplementedNamesWithoutJson ==
  {"DATE_UL", "REG_EXP_UL", "ERROR_UL", "EVAL_ERROR_UL", "RANGE_ERROR_UL",
   "REFERENCE_ERROR_UL", "SYNTAX_ERROR_UL", "TYPE_ERROR_UL", "URI_ERROR_UL"}

UnimplementedNames ==
  {"DATE_UL", "REG_EXP_UL", "ERROR_UL", "EVAL_ERROR_UL", "RANGE_ERROR_UL",
   "REFERENCE_ERROR_UL", "SYNTAX_ERROR_UL", "TYPE_ERROR_UL", "URI_ERROR_UL",
   "JSON_U"}

\* ------------------------------------------------------------ values
SimpleValue(n) == [t |-> "simple", o |-> NULL, n |-> n]
NumberValue(n) == [t |-> "number", o |-> NULL, n |-> n]
ObjectValue(c) == [t |-> "object", o |-> c, n |-> "object"]

\* ecma_free_value (value, true): gives up the reference an object value holds.
ecma_free_value(m, value) ==
  IF value.t = "object" THEN ecma_deref_object(m, value.o) ELSE m

\* --------------------------------------------------- named properties
\* The position of the first own property of that name, 0 when there is none.
ecma_find_named_property(h, obj_p, name) ==
  LET ps == h[obj_p].props
      S  == {i \in 1..Len(ps) : ps[i].name = name}
  IN  IF S = {} THEN 0 ELSE CHOOSE i \in S : \A j \in S : i <= j

\* New properties go to the head of the object's property list.
ecma_create_named_data_property(m, obj_p, name, writable, enumerable, configurable, value) ==
  IF Dead(m) THEN m
  ELSE [m EXCEPT !.heap[obj_p].props =
          << [name |-> name, kind |-> "data", value |-> value,
              get |-> NULL, set |-> NULL, writable |-> writable,
              enumerable |-> enumerable, configurable |-> configurable] >> \o @]

ecma_create_named_accessor_property(m, obj_p, name, get_p, set_p, enumerable, configurable) ==
  IF Dead(m) THEN m
  ELSE [m EXCEPT !.heap[obj_p].props =
          << [name |-> name, kind |-> "accessor", value |-> SimpleValue("empty"),
              get |-> get_p, set |-> set_p, writable |-> FALSE,
              enumerable |-> enumerable, configurable |-> configurable] >> \o @]

\* [[Delete]] of the generic object layer: a configurable own property is
\* removed, anything else stays.
RemoveAt(s, i) == SubSeq(s, 1, i - 1) \o SubSeq(s, i + 1, Len(s))

ecma_op_delete(m, obj_p, name) ==
  LET i == ecma_find_named_property(m.heap, obj_p, name)
  IN  IF i = 0 THEN [m EXCEPT !.res = "true"]
      ELSE IF ~m.heap[obj_p].props[i].configurable THEN [m EXCEPT !.res = "false"]
      ELSE [m EXCEPT !.heap[obj_p].props = RemoveAt(@, i), !.res = "true"]

\* ---------------------------------------------------- 32-bit bit masks
Pow2(n) == 2 ^ n

BitSet(mask, i) == (mask \div Pow2(i)) % 2 = 1

\* Faulty variants: the bit is not stored / the bit replaces the mask.
BitOrNothing(mask, i) == mask

BitOnly(mask, i) == Pow2(i)

BitOr(mask, i) == IF BitSet(mask, i) THEN mask ELSE mask + Pow2(i)

\* A 64-bit value cut to 32 bits, and whether the cut loses nothing.
Fits32(v) == v \div Pow2(16) < Pow2(16)

Trunc32(v) == (v % Pow2(16)) + ((v \div Pow2(16)) % Pow2(16)) * Pow2(16)

\* jrt_set_bit_field_value on a field that is still zero / jrt_extract_bit_field
jrt_set_bit_field_value(value, bit_field_value, lsb, width) ==
  value + (bit_field_value % Pow2(width)) * Pow2(lsb)

jrt_extract_bit_field(value, lsb, width) == (value \div Pow2(lsb)) % Pow2(width)

ECMA_BUILTIN_ROUTINE_ID_BUILT_IN_OBJECT_ID_POS == 0
ECMA_BUILTIN_ROUTINE_ID_BUILT_IN_OBJECT_ID_WIDTH == 16
ECMA_BUILTIN_ROUTINE_ID_BUILT_IN_ROUTINE_ID_POS == 16
ECMA_BUILTIN_ROUTINE_ID_BUILT_IN_ROUTINE_ID_WIDTH == 16

\* The numeric value of a built-in id: its position in the list of the
\* build, which ends with the sentinel ECMA_BUILTIN_ID__COUNT.
InBuild(d) == d[1] \in BuiltinIds(compact_profile)

BuiltinListOfBuild == SelectSeq(ECMA_BUILTIN_LIST, InBuild)

BuiltinIdValue(id) ==
  (CHOOSE j \in 1..Len(BuiltinListOfBuild) : BuiltinListOfBuild[j][1] = id) - 1

ECMA_BUILTIN_ID__COUNT == Len(BuiltinListOfBuild)

ECMA_MAGIC_STRING__COUNT == Len(ECMA_MAGIC_STRINGS)

\* ------------------------------------------------------ binary search
RECURSIVE BinSearchLoop(_, _, _, _)
\* Faulty variant: only the middle element is looked at.
BinSearchOneProbe(ids, key, min, max) ==
  IF min > max THEN -1
  ELSE IF ids[(min + max) \div 2 + 1] = key THEN (min + max) \div 2 ELSE -1

BinSearchLoop(ids, key, min, max) ==
  IF min > max THEN -1
  ELSE LET mid == (min + max) \div 2
       IN  IF ids[mid + 1] = key THEN mid
           ELSE IF ids[mid + 1] > key THEN BinSearchLoop(ids, key, min, mid - 1)
           ELSE BinSearchLoop(ids, key, mid + 1, max)

\* Faulty variant: a miss is reported as index 0.
bin_search_miss_is_zero(ids, array_length, key) ==
  LET r == BinSearchLoop(ids, key, 0, array_length - 1)
  IN  IF r = -1 THEN 0 ELSE r

ecma_builtin_bin_search_for_magic_string_id_in_array(ids, array_length, key) ==
  BinSearchLoop(ids, key, 0, array_length - 1)

\* The debug build's check that the array is in ascending order.
SortedAscending(ids, array_length) ==
  \A i \in 1..(array_length - 1) : ids[i] < ids[i + 1]

GlobalIdsFullSorted == SortedAscending(GlobalIdsFull, Len(GlobalIdsFull))

GlobalIdsCompactSorted == SortedAscending(GlobalIdsCompact, Len(GlobalIdsCompact))

\* ------------------------------------------------- routine functions
\* Faulty variant: both fields are put at the same position.
PackOverlapping(builtin_id, routine_id) ==
  jrt_set_bit_field_value(BuiltinIdValue(builtin_id), routine_id,
                          ECMA_BUILTIN_ROUTINE_ID_BUILT_IN_OBJECT_ID_POS,
                          ECMA_BUILTIN_ROUTINE_ID_BUILT_IN_ROUTINE_ID_WIDTH)

\* Lines 318-325: the built-in id and the routine id in one value.
PackRoutineId(builtin_id, routine_id) ==
  jrt_set_bit_field_value(
    jrt_set_bit_field_value(0, BuiltinIdValue(builtin_id),
                            ECMA_BUILTIN_ROUTINE_ID_BUILT_IN_OBJECT_ID_POS,
                            ECMA_BUILTIN_ROUTINE_ID_BUILT_IN_OBJECT_ID_WIDTH),
    routine_id,
    ECMA_BUILTIN_ROUTINE_ID_BUILT_IN_ROUTINE_ID_POS,
    ECMA_BUILTIN_ROUTINE_ID_BUILT_IN_ROUTINE_ID_WIDTH)

\* Lines 316-346: the flag, the routine id and the "length" property of the
\* function object func_obj_p; the function returns it.
RoutineProperties(m, func_obj_p, packed_value, length_prop_num_value) ==
  IF Dead(m) THEN m
  ELSE [ecma_create_named_data_property(
          [m EXCEPT !.heap[func_obj_p].is_builtin = TRUE,
                    !.heap[func_obj_p].routine_id = Trunc32(packed_value)],
          func_obj_p, "LENGTH", FALSE, FALSE, FALSE,
          NumberValue(length_prop_num_value))
        EXCEPT !.out = func_obj_p]

\* Lines 314-346: m.out is the Function prototype get returned.
RoutineObject(m, packed_value, length_prop_num_value) ==
  IF Dead(m) THEN m
  ELSE RoutineProperties(
         JERRY_ASSERT(ecma_deref_object(m, m.out), Fits32(packed_value)),
         m.new, packed_value, length_prop_num_value)

\* Faulty variant: the function object gets no prototype.
RoutineCreateNoPrototype(m) ==
  IF Dead(m) THEN m
  ELSE ecma_create_object(m, NULL, TRUE, "BUILT_IN_FUNCTION", "ROUTINE")

\* Line 312: m.out is the Function prototype get returned.
RoutineCreate(m) ==
  IF Dead(m) THEN m
  ELSE ecma_create_object(m, m.out, TRUE, "BUILT_IN_FUNCTION", "ROUTINE")

ecma_builtin_make_function_object_for_routine(m, builtin_id, routine_id, length_prop_num_value) ==
  RoutineObject(RoutineCreate(ecma_builtin_get(m, "FUNCTION_PROTOTYPE")),
                PackRoutineId(builtin_id, routine_id), length_prop_num_value)

\* -------------------------------------------- lazy instantiation (Global)
\* Attributes are <<writable, enumerable, configurable>>.
Frozen == <<FALSE, FALSE, FALSE>>
Default == <<TRUE, FALSE, TRUE>>

ConstantNames == {"UNDEFINED", "NAN", "INFINITY_UL"}

\* Faulty variant: every property gets the default attributes.
GlobalAttributesDefault(name) == Default

GlobalAttributes(name) == IF name \in ConstantNames THEN Frozen ELSE Default

\* Faulty variant: the cases of the registry's objects all take the same.
GlobalObtainOneObject(m, name) ==
  CASE name \in RoutineNames ->
         ecma_builtin_make_function_object_for_routine(
           m, "GLOBAL", MagicId(name), RoutineLength(name))
    [] name \in ConstantNames -> m
    [] NamespaceId(name) # "NONE" -> ecma_builtin_get(m, "OBJECT_PROTOTYPE")
    [] OTHER -> JERRY_UNREACHABLE(m)

\* The switch over the name's id, lines 381-533: the machine after the
\* value has been obtained (a routine's function object or a built-in
\* object is in m.out) ...
GlobalObtainValue(m, name) ==
  CASE name \in RoutineNames ->
         ecma_builtin_make_function_object_for_routine(
           m, "GLOBAL", MagicId(name), RoutineLength(name))
    [] name \in ConstantNames -> m
    [] NamespaceId(name) # "NONE" -> ecma_builtin_get(m, NamespaceId(name))
    [] OTHER -> JERRY_UNREACHABLE(m)

\* ... and the value.
GlobalValue(m, name) ==
  CASE name = "UNDEFINED"   -> SimpleValue("undefined")
    [] name = "NAN"         -> NumberValue("NaN")
    [] name = "INFINITY_UL" -> NumberValue("+Infinity")
    [] OTHER                -> ObjectValue(m.out)

\* Faulty variant: the function keeps its reference to the value.
GlobalCreatePropertyKeepingValue(m, obj_p, name) ==
  IF Dead(m) THEN m
  ELSE Returns(
         ecma_create_named_data_property(
           m, obj_p, name, GlobalAttributes(name)[1], GlobalAttributes(name)[2],
           GlobalAttributes(name)[3], GlobalValue(m, name)),
         "prop")

\* Lines 536-548: the data property, and the function's own reference to
\* the value given up.
GlobalCreateProperty(m, obj_p, name) ==
  IF Dead(m) THEN m
  ELSE Returns(
         ecma_free_value(
           ecma_create_named_data_property(
             m, obj_p, name, GlobalAttributes(name)[1], GlobalAttributes(name)[2],
             GlobalAttributes(name)[3], GlobalValue(m, name)),
           GlobalValue(m, name)),
         "prop")

\* Faulty variant: the thrower is the getter only.
ThrowerGetterOnly(m, obj_p, name) ==
  IF Dead(m) THEN m
  ELSE Returns(
         ecma_deref_object(
           ecma_create_named_accessor_property(m, obj_p, name, m.out, NULL,
                                               TRUE, FALSE),
           m.out),
         "prop")

\* Lines 507-519: m.out is the thrower get returned.
ThrowerProperty(m, obj_p, name) ==
  IF Dead(m) THEN m
  ELSE Returns(
         ecma_deref_object(
           ecma_create_named_accessor_property(m, obj_p, name, m.out, m.out,
                                               TRUE, FALSE),
           m.out),
         "prop")

\* Faulty variant: outside the compact profile nothing is instantiated.
GlobalThrowerOrNone(m, obj_p, name) ==
  IF compact_profile
  THEN ThrowerProperty(ecma_builtin_get(m, "COMPACT_PROFILE_ERROR"), obj_p, name)
  ELSE Returns(m, "none")

\* The case of the unimplemented members: a throwing accessor under the
\* compact profile, the fatal "not implemented" otherwise.
GlobalThrower(m, obj_p, name) ==
  IF compact_profile
  THEN ThrowerProperty(ecma_builtin_get(m, "COMPACT_PROFILE_ERROR"), obj_p, name)
  ELSE JERRY_UNIMPLEMENTED(m)

\* The first half of the materialization, lines 381-533: the object that is
\* to be the property's value or thrower is obtained ...
GlobalObtain(m, name) ==
  IF name \in UnimplementedNames
  THEN (IF compact_profile THEN ecma_builtin_get(m, "COMPACT_PROFILE_ERROR")
                           ELSE JERRY_UNIMPLEMENTED(m))
  ELSE GlobalObtainValue(m, name)

\* ... and the second half: the property is created.
GlobalInstall(m, obj_p, name) ==
  IF name \in UnimplementedNames THEN ThrowerProperty(m, obj_p, name)
  ELSE GlobalCreateProperty(m, obj_p, name)

\* Lines 376-548: the property of a name whose bit has just been set.
GlobalInstantiate(m, obj_p, name) ==
  IF name \in UnimplementedNames THEN GlobalThrower(m, obj_p, name)
  ELSE GlobalCreateProperty(GlobalObtainValue(m, name), obj_p, name)

\* Faulty variant: the bit is not set before the materialization.
GlobalSetBitLater(m, obj_p, index) == m

\* Lines 372-374: the bit of the name is set in the mask.
GlobalSetBit(m, obj_p, index) ==
  [m EXCEPT !.heap[obj_p].mask = BitOr(@, index)]

\* Faulty variant: the bit is set but never tested.
GlobalSetWithoutTest(m, obj_p, name, index) ==
  IF Dead(m) THEN m
  ELSE GlobalInstantiate(GlobalSetBit(m, obj_p, index), obj_p, name)

\* Lines 365-374: the test of the bit, and the bit set.
GlobalTestAndSet(m, obj_p, name, index) ==
  IF Dead(m) THEN m
  ELSE IF BitSet(m.heap[obj_p].mask, index) THEN Returns(m, "none")
  ELSE GlobalInstantiate(GlobalSetBit(m, obj_p, index), obj_p, name)

\* Lines 358-363: the mask is created, zero, when the object has none.
GlobalMask(m, obj_p) ==
  IF ~Dead(m) /\ m.heap[obj_p].mask = -1 THEN [m EXCEPT !.heap[obj_p].mask = 0] ELSE m

\* From the index on: lines 353-549.
GlobalMaterialize(m, obj_p, name, index) ==
  IF Dead(m) THEN m
  ELSE IF index = -1 THEN Returns(m, "none")
  ELSE GlobalTestAndSet(
         GlobalMask(JERRY_ASSERT(m, index >= 0 /\ index < 32), obj_p),
         obj_p, name, index)

\* Lines 337-351: the name's magic string id and its index in the table.
GlobalSearch(m, obj_p, prop_name_p) ==
  IF Dead(m) THEN m
  ELSE IF ~ecma_is_string_magic(prop_name_p) THEN Returns(m, "none")
  ELSE GlobalMaterialize(
         JERRY_ASSERT(m, IF compact_profile THEN GlobalIdsCompactSorted
                                            ELSE GlobalIdsFullSorted),
         obj_p, prop_name_p,
         ecma_builtin_bin_search_for_magic_string_id_in_array(
           ecma_builtin_global_property_names(compact_profile),
           ecma_builtin_global_property_number(compact_profile),
           MagicId(prop_name_p)))

\* JERRY_ASSERT (ecma_builtin_is (obj_p, builtin_id)): the call is part of
\* the assertion and is compiled out with it.
AssertResult(m) == JERRY_ASSERT(m, m.res = "true")

AssertBuiltinIs(m, obj_p, builtin_id) ==
  IF ndebug \/ Dead(m) THEN m ELSE AssertResult(ecma_builtin_is(m, obj_p, builtin_id))

\* JERRY_ASSERT (ecma_find_named_property (obj_p, prop_name_p) == NULL)
AssertNoProperty(m, obj_p, prop_name_p) ==
  JERRY_ASSERT(m, ecma_find_named_property(m.heap, obj_p, prop_name_p) = 0)

ecma_builtin_global_try_to_instantiate_property(m, obj_p, prop_name_p) ==
  GlobalSearch(
    AssertNoProperty(AssertBuiltinIs(m, obj_p, "GLOBAL"), obj_p, prop_name_p),
    obj_p, prop_name_p)

\* The variant switch of ecma-builtins.c, lines 258-290; only the Global
\* object's variant is followed further.
TryVariant(m, builtin_id, object_p, string_p) ==
  IF Dead(m) THEN m
  ELSE IF builtin_id = "GLOBAL"
       THEN ecma_builtin_global_try_to_instantiate_property(
              [m EXCEPT !.res = "void"], object_p, string_p)
       ELSE Returns(m, "other variant")

ecma_builtin_try_to_instantiate_property(m, object_p, string_p) ==
  TryVariant(
    AssertBuiltinIs(JERRY_ASSERT(m, m.heap[object_p].is_builtin), object_p,
                    m.heap[object_p].built_in_id),
    m.heap[object_p].built_in_id, object_p, string_p)

\* ------------------------------------------------- completion values
NormalCompletion(v) == [type |-> "normal", value |-> v]
ThrowCompletion(v) == [type |-> "throw", value |-> v]

\* A script object as an argument; only what its conversion to a number
\* does is known of it.
ScriptObject(conversion) == [t |-> "script object", o |-> NULL, n |-> conversion]

TypeError == [t |-> "error", o |-> NULL, n |-> "TypeError"]

\* ecma_op_to_number: a normal completion with a newly allocated number,
\* or the throw completion of the conversion of an object.
NumberOf(value) ==
  CASE value.t = "number" -> value.n
    [] value.t = "simple" /\ value.n = "undefined" -> "NaN"
    [] value.t = "script object" -> value.n
    [] OTHER -> "NaN"

ecma_op_to_number(m, value) ==
  IF Dead(m) THEN m
  ELSE IF NumberOf(value) = "throws"
       THEN [m EXCEPT !.res = ThrowCompletion(TypeError)]
       ELSE [m EXCEPT !.res = NormalCompletion(NumberValue(NumberOf(value))),
                      !.call.allocs = @ + 1]

ecma_number_is_nan(n) == n = "NaN"

ecma_number_is_infinity(n) == n \in {"+Infinity", "-Infinity"}

ecma_make_simple_completion_value(b) ==
  NormalCompletion(SimpleValue(IF b THEN "true" ELSE "false"))

\* ECMA_BUILTIN_CP_UNIMPLEMENTED: the compact profile's error object is
\* thrown under the compact profile, the process stops otherwise.
ThrowObject(m) ==
  IF Dead(m) THEN m ELSE [m EXCEPT !.res = ThrowCompletion(ObjectValue(m.out))]

ECMA_BUILTIN_CP_UNIMPLEMENTED(m) ==
  IF compact_profile THEN ThrowObject(ecma_builtin_get(m, "COMPACT_PROFILE_ERROR"))
  ELSE JERRY_UNIMPLEMENTED(m)

\* ------------------------------------- the Global object's routines
\* ECMA_TRY_CATCH ... ECMA_FINALIZE around the body: m.res is the completion
\* of the conversion; a throw is handed on as it is, a normal completion is
\* replaced by the body's and its number is freed.
IsNanBody(m) ==
  IF Dead(m) \/ m.res.type = "throw" THEN m
  ELSE [m EXCEPT !.res = ecma_make_simple_completion_value(
                           ecma_number_is_nan(m.res.value.n)),
                 !.call.frees = @ + 1]

ecma_builtin_global_object_is_nan(m, arg) == IsNanBody(ecma_op_to_number(m, arg))

\* Faulty variant: an infinity counts as finite.
IsFiniteBodyNanOnly(m) ==
  IF Dead(m) \/ m.res.type = "throw" THEN m
  ELSE [m EXCEPT !.res = ecma_make_simple_completion_value(
                           ~ecma_number_is_nan(m.res.value.n)),
                 !.call.frees = @ + 1]

IsFiniteBody(m) ==
  IF Dead(m) \/ m.res.type = "throw" THEN m
  ELSE [m EXCEPT !.res = ecma_make_simple_completion_value(
                           ~(ecma_number_is_nan(m.res.value.n)
                             \/ ecma_number_is_infinity(m.res.value.n))),
                 !.call.frees = @ + 1]

ecma_builtin_global_object_is_finite(m, arg) == IsFiniteBody(ecma_op_to_number(m, arg))

\* The C function of a routine of the list, on the formal parameters the
\* dispatcher recorded.
GlobalRoutine(m, name) ==
  CASE name = "IS_NAN"    -> ecma_builtin_global_object_is_nan(m, m.call.formals[1])
    [] name = "IS_FINITE" -> ecma_builtin_global_object_is_finite(m, m.call.formals[1])
    [] OTHER              -> ECMA_BUILTIN_CP_UNIMPLEMENTED(m)

value_undefined == SimpleValue("undefined")

\* Faulty variant: the argument is read whether it was supplied or not.
ROUTINE_ARG_UNCHECKED(n, arguments_list, arguments_number) ==
  [value |-> IF n <= Len(arguments_list) THEN arguments_list[n]
             ELSE SimpleValue("garbage"),
   read |-> n]

\* ROUTINE_ARG (n): the value, and the position of the list that was read
\* (0 for none).
ROUTINE_ARG(n, arguments_list, arguments_number) ==
  IF arguments_number >= n THEN [value |-> arguments_list[n], read |-> n]
  ELSE [value |-> value_undefined, read |-> 0]

\* ROUTINE_ARG_LIST_1, ROUTINE_ARG_LIST_2
ROUTINE_ARG_LIST(args_number, arguments_list, arguments_number) ==
  [n \in 1..args_number |-> ROUTINE_ARG(n, arguments_list, arguments_number)]

RoutineIds == {MagicId(name) : name \in RoutineNames}

\* Faulty variant: every id is taken for the first routine of the list.
RoutineOfIdFirst(id) == 1

RoutineOfId(id) == CHOOSE i \in 1..Len(RoutineList) : MagicId(RoutineList[i][1]) = id

\* The case of the switch: the call of the C function on the arguments.
EnterRoutine(m, owner, name, args) ==
  [m EXCEPT !.call = [NoCall EXCEPT !.kind = "routine", !.owner = owner,
                                    !.name = name,
                                    !.formals = [n \in DOMAIN args |-> args[n].value],
                                    !.reads = {args[n].read : n \in DOMAIN args} \ {0}]]

CaseRoutine(m, r, arguments_list, arguments_number) ==
  GlobalRoutine(
    EnterRoutine(m, "GLOBAL", r[1],
                 ROUTINE_ARG_LIST(r[2], arguments_list, arguments_number)),
    r[1])

ecma_builtin_global_dispatch_routine(m, builtin_routine_id, this_arg_value, arguments_list, arguments_number) ==
  IF Dead(m) THEN m
  ELSE IF builtin_routine_id \in RoutineIds
       THEN CaseRoutine(m, RoutineList[RoutineOfId(builtin_routine_id)],
                        arguments_list, arguments_number)
       ELSE JERRY_UNREACHABLE(m)

\* ------------------------------------------ call and construct dispatch
\* Lines 369-371 and 374-376 of ecma_builtin_dispatch_call: the two fields.
RoutineOwnerField(packed) ==
  jrt_extract_bit_field(packed, ECMA_BUILTIN_ROUTINE_ID_BUILT_IN_OBJECT_ID_POS,
                        ECMA_BUILTIN_ROUTINE_ID_BUILT_IN_OBJECT_ID_WIDTH)

RoutineIdField(packed) ==
  jrt_extract_bit_field(packed, ECMA_BUILTIN_ROUTINE_ID_BUILT_IN_ROUTINE_ID_POS,
                        ECMA_BUILTIN_ROUTINE_ID_BUILT_IN_ROUTINE_ID_WIDTH)

\* Lines 372 and 377: the assertions on the two fields.
AssertFields(m, packed) ==
  JERRY_ASSERT(JERRY_ASSERT(m, RoutineOwnerField(packed) < ECMA_BUILTIN_ID__COUNT),
               RoutineIdField(packed) < ECMA_MAGIC_STRING__COUNT)

\* The completion value of a handler whose body is not followed.
HandlerCompletion == NormalCompletion(SimpleValue("handler's"))

\* What the handler of a variant returns: the CompactProfileError object
\* throws itself when it is called or constructed, the handlers of the other
\* variants are not followed.
VariantHandler(m, builtin_id) ==
  IF builtin_id = "COMPACT_PROFILE_ERROR"
  THEN ThrowObject(ecma_builtin_get(m, "COMPACT_PROFILE_ERROR"))
  ELSE [m EXCEPT !.res = HandlerCompletion]

\* ecma_builtin_<lowercase_name>_dispatch_call / _dispatch_construct /
\* _dispatch_routine of a variant: the handler is reached.
EnterVariant(m, kind, builtin_id, name) ==
  VariantHandler([m EXCEPT !.call = [NoCall EXCEPT !.kind = kind,
                                                   !.owner = builtin_id,
                                                   !.name = name]],
                 builtin_id)

\* The default case of the switches over the built-in id.
DefaultCase(m) ==
  IF compact_profile THEN JERRY_UNREACHABLE(m) ELSE JERRY_UNIMPLEMENTED(m)

\* The cases DISPATCH_ROUTINE makes of the list.
VariantRoutine(m, builtin_id, builtin_routine_id, this_arg_value, arguments_list, arguments_number) ==
  IF builtin_id = "GLOBAL"
  THEN ecma_builtin_global_dispatch_routine(m, builtin_routine_id, this_arg_value,
                                            arguments_list, arguments_number)
  ELSE EnterVariant(m, "routine", builtin_id, builtin_routine_id)

\* A handler's throw caught: the faulty dispatchers return normally.
Caught(m) ==
  IF ~Dead(m) /\ m.res.type = "throw"
  THEN [m EXCEPT !.res = NormalCompletion(SimpleValue("undefined"))]
  ELSE m

\* Faulty variant: the throw of a routine is not handed on.
ecma_builtin_dispatch_routine_catching(m, builtin_object_id, builtin_routine_id, this_arg_value, arguments_list, arguments_number) ==
  IF Dead(m) THEN m
  ELSE IF builtin_object_id < ECMA_BUILTIN_ID__COUNT
       THEN Caught(VariantRoutine(m, BuiltinListOfBuild[builtin_object_id + 1][1],
                                  builtin_routine_id, this_arg_value,
                                  arguments_list, arguments_number))
       ELSE IF builtin_object_id = ECMA_BUILTIN_ID__COUNT THEN JERRY_UNREACHABLE(m)
       ELSE DefaultCase(m)

ecma_builtin_dispatch_routine(m, builtin_object_id, builtin_routine_id, this_arg_value, arguments_list, arguments_number) ==
  IF Dead(m) THEN m
  ELSE IF builtin_object_id < ECMA_BUILTIN_ID__COUNT
       THEN VariantRoutine(m, BuiltinListOfBuild[builtin_object_id + 1][1],
                           builtin_routine_id, this_arg_value, arguments_list,
                           arguments_number)
       ELSE IF builtin_object_id = ECMA_BUILTIN_ID__COUNT THEN JERRY_UNREACHABLE(m)
       ELSE DefaultCase(m)

\* Faulty variant: a variant of any kind is called.
VariantCaseOfAnyKind(m, kind, builtin_id) ==
  IF Dead(m) THEN m ELSE EnterVariant(m, kind, builtin_id, "NONE")

\* The cases DISPATCH_CALL and DISPATCH_CONSTRUCT make of the list.
VariantCase(m, kind, builtin_id) ==
  IF Dead(m) THEN m
  ELSE IF builtin_id \notin BuiltinIds(compact_profile) THEN DefaultCase(m)
  ELSE IF Descriptor(builtin_id).type = "FUNCTION"
       THEN EnterVariant(m, kind, builtin_id, "NONE")
       ELSE JERRY_UNREACHABLE(m)

\* Lines 365-386: the routine function object's branch.
RoutineBranch(m, packed, this_arg_value, arguments_list, arguments_number) ==
  ecma_builtin_dispatch_routine(AssertFields(m, packed), RoutineOwnerField(packed),
                                RoutineIdField(packed), this_arg_value,
                                arguments_list, arguments_number)

\* Lines 390-435: the branch of the other built-in objects.
VariantBranch(m, obj_p, builtin_id) ==
  VariantCase(
    AssertBuiltinIs(JERRY_ASSERT(m, m.heap[obj_p].type = "FUNCTION"), obj_p,
                    builtin_id),
    "call", builtin_id)

ecma_builtin_dispatch_call(m, obj_p, this_arg_value, arguments_list, arguments_number) ==
  IF m.heap[obj_p].type = "BUILT_IN_FUNCTION"
  THEN RoutineBranch(JERRY_ASSERT(m, m.heap[obj_p].is_builtin),
                     m.heap[obj_p].routine_id, this_arg_value, arguments_list,
                     arguments_number)
  ELSE VariantBranch(JERRY_ASSERT(m, m.heap[obj_p].is_builtin), obj_p,
                     m.heap[obj_p].built_in_id)

\* ecma_get_internal_property of an object that has no such property: the
\* read goes through a null pointer, and the process stops or goes on with
\* whatever is read.
Crash(m) == IF Dead(m) THEN m ELSE [m EXCEPT !.fatal = "crash"]

ReadMissing(m, obj_p, read) ==
  IF read = "crash" THEN Crash(m) ELSE VariantCase(m, "construct", read)

\* Lines 456-499.
ConstructBranch(m, obj_p, builtin_id, read) ==
  IF Dead(m) THEN m
  ELSE IF builtin_id = "NONE" THEN ReadMissing(m, obj_p, read)
  ELSE VariantCase(AssertBuiltinIs(m, obj_p, builtin_id), "construct", builtin_id)

\* read is what the read of a missing property gives.
ecma_builtin_dispatch_construct(m, obj_p, arguments_list, arguments_number, read) ==
  ConstructBranch(
    JERRY_ASSERT(JERRY_ASSERT(m, m.heap[obj_p].type = "FUNCTION"),
                 m.heap[obj_p].is_builtin),
    obj_p, m.heap[obj_p].built_in_id, read)

\* ------------------------------------------------ the property lookup path
\* Lines 252-254 of ecma_builtin_try_to_instantiate_property for an object
\* that has no BUILT_IN_ID property: ecma_get_internal_property asserts
\* that the property exists; with the assertion compiled out the read goes
\* through a null pointer, and the process stops or goes on with the id
\* that is read.
TryMissingId(m, object_p, string_p, read) ==
  IF ~ndebug THEN JERRY_ASSERT(m, FALSE)
  ELSE IF read = "crash" THEN Crash(m)
  ELSE TryVariant(m, read, object_p, string_p)

\* The lookup of a property of an object: the search among its own
\* properties, and for a miss on an object flagged as built-in the lazy
\* instantiation.
PropertyLookup(m, object_p, string_p, read) ==
  IF ecma_find_named_property(m.heap, object_p, string_p) # 0 THEN Returns(m, "own")
  ELSE IF ~m.heap[object_p].is_builtin THEN Returns(m, "none")
  ELSE IF m.heap[object_p].built_in_id = "NONE"
       THEN TryMissingId(JERRY_ASSERT(m, m.heap[object_p].is_builtin), object_p,
                         string_p, read)
       ELSE ecma_builtin_try_to_instantiate_property(m, object_p, string_p)

\* ---------------------------------------------------------- the collector
\* The objects an object refers to: its prototype and its properties' values.
PropRefs(p) ==
  IF p.kind = "data"
  THEN (IF p.value.t = "object" THEN {p.value.o} ELSE {})
  ELSE {p.get, p.set} \ {NULL}

ObjRefs(h, c) ==
  ({h[c].prototype} \ {NULL})
    \cup UNION {PropRefs(h[c].props[i]) : i \in 1..Len(h[c].props)}

RECURSIVE Mark(_, _)
Mark(h, S) ==
  LET T == S \cup UNION {ObjRefs(h, c) : c \in S}
  IN  IF T = S THEN S ELSE Mark(h, T)

Roots(h) == {c \in DOMAIN h : h[c].refs > 0}

Live(h) == Mark(h, Roots(h))

ecma_gc_run(h) == [c \in Live(h) |-> h[c]]

\* ------------------------------------------------------------- the steps
Now == Machine(heap, ecma_builtin_objects, order)

NoRet == [op |-> "none", arg |-> "NONE", res |-> "void", out |-> NULL]

\* The step commits what the function left behind; a function that found
\* no free cell is not run at all.
Commit(m, op, arg, out) ==
  /\ ~m.oom
  /\ heap' = m.heap
  /\ ecma_builtin_objects' = m.objs
  /\ order' = m.order
  /\ fatal' = m.fatal
  /\ ret' = [op |-> op, arg |-> arg,
             res |-> IF m.fatal # "none" THEN "fatal" ELSE m.res, out |-> out]

\* The caller owns the completion value, and with it the reference to a
\* thrown built-in object.
Thrown(m) ==
  IF ~Dead(m) /\ m.res.type = "throw" /\ m.res.value.t = "object"
  THEN m.res.value.o ELSE NULL

CommitCall(m, op, arg) ==
  /\ Commit(m, op, arg, m.call)
  /\ held' = IF Thrown(m) = NULL THEN held ELSE [held EXCEPT ![Thrown(m)] = @ + 1]

RECURSIVE SumHeld(_)
SumHeld(c) == IF c = 0 THEN 0 ELSE held[c] + SumHeld(c - 1)

HeldTotal == SumHeld(Len(Pools) * MaxObjects)

PopCount(mask) == Cardinality({i \in 0..30 : mask >= 0 /\ BitSet(mask, i)})

\* The collector runs before the next call once an object has become
\* unreachable.
Collected == DOMAIN heap = Live(heap)

Alive == fatal = "none" /\ Collected

Running == engine = "running" /\ Alive

Init ==
  /\ compact_profile \in BOOLEAN
  /\ ndebug \in BOOLEAN
  /\ engine = "stopped"
  /\ heap = <<>>
  /\ ecma_builtin_objects = [id \in AllBuiltinIds |-> NULL]
  /\ held = [c \in Cells |-> 0]
  /\ order = [id \in AllBuiltinIds |-> TRUE]
  /\ fatal = "none"
  /\ ret = NoRet

EngineInit ==
  /\ engine = "stopped" /\ Alive
  /\ engine' = "running"
  /\ Commit(ecma_init_builtins(Now), "init", "NONE", NULL)
  /\ UNCHANGED <<compact_profile, ndebug, held>>

EngineFinalize ==
  /\ Alive
  /\ engine' = "stopped"
  /\ Commit(ecma_finalize_builtins(Now), "finalize", "NONE", NULL)
  /\ UNCHANGED <<compact_profile, ndebug, held>>

\* The caller of get owns the reference it was given.
CommitGet(m, id) ==
  /\ Commit(m, "get", id, m.out)
  /\ held' = IF Dead(m) THEN held ELSE [held EXCEPT ![m.out] = @ + 1]

Get(id) ==
  /\ engine = "running"
  /\ HeldTotal < MaxHeld
  /\ Alive
  /\ CommitGet(ecma_builtin_get(Now, id), id)
  /\ UNCHANGED <<compact_profile, ndebug, engine>>

Is(obj_p, id) ==
  /\ obj_p \in DOMAIN heap
  /\ Running
  /\ LET m == ecma_builtin_is(Now, obj_p, id) IN Commit(m, "is", id, m.new)
  /\ UNCHANGED <<compact_profile, ndebug, engine, held>>

\* A client gives back one of the references it obtained from get.
Release(c) ==
  /\ held[c] > 0
  /\ Alive
  /\ held' = [held EXCEPT ![c] = @ - 1]
  /\ Commit(ecma_deref_object(Now, c), "release", "NONE", c)
  /\ UNCHANGED <<compact_profile, ndebug, engine>>

CommitTry(m, object_p, name) ==
  /\ PopCount(m.heap[object_p].mask) <= MaxProps
  /\ Commit(m, "try", name, object_p)

\* The property lookup path or a client calls the lazy instantiation on a
\* Global object it can reach.
TryInstantiate(object_p, name) ==
  /\ object_p \in DOMAIN heap /\ heap[object_p].built_in_id = "GLOBAL"
  /\ Running
  /\ CommitTry(ecma_builtin_try_to_instantiate_property(Now, object_p, name),
               object_p, name)
  /\ UNCHANGED <<compact_profile, ndebug, engine, held>>

\* Script code deletes an own property of a Global object.
DeleteProperty(object_p, name) ==
  /\ object_p \in DOMAIN heap /\ heap[object_p].built_in_id = "GLOBAL"
  /\ ecma_find_named_property(heap, object_p, name) # 0
  /\ Running
  /\ Commit(ecma_op_delete(Now, object_p, name), "delete", name, object_p)
  /\ UNCHANGED <<compact_profile, ndebug, engine, held>>

GcRun ==
  /\ fatal = "none"
  /\ ~Collected
  /\ heap' = ecma_gc_run(heap)
  /\ ret' = [NoRet EXCEPT !.op = "gc"]
  /\ UNCHANGED <<compact_profile, ndebug, engine, ecma_builtin_objects, held,
                 order, fatal>>

\* The ids clients ask the registry for, and the names looked up on the
\* Global object.
ClientIds ==
  {"OBJECT_PROTOTYPE", "GLOBAL"}

GlobalIds == {"GLOBAL"}

LookupNames ==
  {"EVAL", "PARSE_INT", "NAN", "OBJECT_UL", "DATE_UL",
   "COMPACT_PROFILE_ERROR_UL", "LENGTH", "doesNotExist"}

Next ==
  \/ EngineInit
  \/ EngineFinalize
  \/ \E id \in ClientIds \cap BuiltinIds(compact_profile) : Get(id)
  \/ \E c \in DOMAIN heap, id \in ClientIds \cap BuiltinIds(compact_profile) : Is(c, id)
  \/ \E c \in DOMAIN heap : Release(c)
  \/ GcRun

Spec == Init /\ [][Next]_vars

NextGlobal ==
  \/ EngineInit
  \/ \E id \in GlobalIds : Get(id)
  \/ \E c \in DOMAIN heap, name \in LookupNames : TryInstantiate(c, name)
  \/ \E c \in DOMAIN heap, name \in LookupNames : DeleteProperty(c, name)
  \/ \E c \in DOMAIN heap : Release(c)
  \/ GcRun

SpecGlobal == Init /\ [][NextGlobal]_vars

\* ------------------------------------- a lookup during a materialization
\* The caller's local variables are its own: the call made meanwhile
\* leaves them as they were.
Resume(s, r) == IF Dead(r) THEN r ELSE [r EXCEPT !.out = s.out, !.new = s.new]

\* The call made meanwhile, or none.
Within(s, made, obj_p, name) ==
  IF made THEN ecma_builtin_try_to_instantiate_property(s, obj_p, name) ELSE s

ObtainAndInstall(s, at, obj_p, name) ==
  GlobalInstall(
    Resume(GlobalObtain(s, name),
           Within(GlobalObtain(s, name), at = "try, value obtained", obj_p, name)),
    obj_p, name)

\* The lazy instantiation of a name not yet materialized on the registry's
\* Global object, with a lookup of the same name on the same object that
\* arrives right after the bit is set, or after the value is obtained.
\* ret.res is what the call made meanwhile returned.
TryWithinTry(object_p, name, at) ==
  /\ Running
  /\ object_p # NULL /\ object_p = ecma_builtin_objects["GLOBAL"]
  /\ ecma_is_string_magic(name)
  /\ ecma_find_named_property(heap, object_p, name) = 0
  /\ \E index \in {ecma_builtin_bin_search_for_magic_string_id_in_array(
                      ecma_builtin_global_property_names(compact_profile),
                      ecma_builtin_global_property_number(compact_profile),
                      MagicId(name))} :
       /\ index # -1
       /\ ~BitSet(GlobalMask(Now, object_p).heap[object_p].mask, index)
       /\ \E s \in {GlobalSetBit(GlobalMask(Now, object_p), object_p, index)} :
            \E r \in {Within(s, at = "try, bit set", object_p, name)} :
              \E m \in {ObtainAndInstall(Resume(s, r), at, object_p, name)} :
                /\ PopCount(m.heap[object_p].mask) <= MaxProps
                /\ Commit([m EXCEPT !.res =
                              IF at = "try, bit set" THEN r.res
                              ELSE Within(GlobalObtain(Resume(s, r), name), TRUE,
                                          object_p, name).res],
                          at, name, object_p)
  /\ UNCHANGED <<compact_profile, ndebug, engine, held>>

WithinAt == {"try, bit set", "try, value obtained"}

WithinNames == {"PARSE_INT", "NAN", "OBJECT_UL", "DATE_UL"}

NextWithin ==
  \/ EngineInit
  \/ \E id \in GlobalIds : Get(id)
  \/ \E c \in DOMAIN heap, name \in WithinNames : TryInstantiate(c, name)
  \/ \E c \in DOMAIN heap, name \in WithinNames, at \in WithinAt :
       TryWithinTry(c, name, at)
  \/ \E c \in DOMAIN heap : Release(c)

SpecWithin == Init /\ [][NextWithin]_vars

\* ------------------------------------------------- calls of built-ins
DispatchArgs == {<<>>, <<NumberValue("1")>>}

DispatchCall(obj_p, arguments_list) ==
  /\ obj_p \in DOMAIN heap
  /\ Running
  /\ HeldTotal < MaxHeld
  /\ CommitCall(ecma_builtin_dispatch_call(Now, obj_p, value_undefined,
                                           arguments_list, Len(arguments_list)),
                "call", obj_p)
  /\ UNCHANGED <<compact_profile, ndebug, engine>>

\* What the read of the built-in id gives: the id, or, of an object that
\* has none, anything: the process stops, or the id of a function-shaped
\* or of another built-in is read.
ReadsOf(obj_p) ==
  IF heap[obj_p].built_in_id = "NONE" THEN {"crash", "OBJECT", "GLOBAL"}
  ELSE {heap[obj_p].built_in_id}

DispatchConstruct(obj_p, arguments_list, read) ==
  /\ obj_p \in DOMAIN heap
  /\ Running
  /\ HeldTotal < MaxHeld
  /\ CommitCall(ecma_builtin_dispatch_construct(Now, obj_p, arguments_list,
                                                Len(arguments_list), read),
                "construct", obj_p)
  /\ UNCHANGED <<compact_profile, ndebug, engine>>

DispatchNames == {"PARSE_INT", "IS_NAN", "EVAL", "OBJECT_UL"}

NextDispatch ==
  \/ EngineInit
  \/ \E id \in GlobalIds : Get(id)
  \/ \E c \in DOMAIN heap, name \in DispatchNames : TryInstantiate(c, name)
  \/ \E c \in DOMAIN heap, arguments_list \in DispatchArgs :
       DispatchCall(c, arguments_list)
  \/ \E c \in DOMAIN heap, arguments_list \in DispatchArgs :
       \E read \in ReadsOf(c) : DispatchConstruct(c, arguments_list, read)
  \/ \E c \in DOMAIN heap : Release(c)

SpecDispatch == Init /\ [][NextDispatch]_vars

\* ------------------------------------------------ lookups of properties
\* Script code reads a property of an object it can reach.
Lookup(object_p, name, read) ==
  /\ object_p \in DOMAIN heap
  /\ Running
  /\ \E m \in {PropertyLookup(Now, object_p, name, read)} :
       /\ PopCount(m.heap[object_p].mask) <= MaxProps
       /\ Commit(m, "lookup", name, object_p)
  /\ UNCHANGED <<compact_profile, ndebug, engine, held>>

PropertyNames == {"EVAL", "NAN", "LENGTH", "doesNotExist"}

NextLookup ==
  \/ EngineInit
  \/ \E id \in GlobalIds : Get(id)
  \/ \E c \in DOMAIN heap, name \in PropertyNames :
       \E read \in ReadsOf(c) : Lookup(c, name, read)
  \/ \E c \in DOMAIN heap : Release(c)

SpecLookup == Init /\ [][NextLookup]_vars

\* ---------------------------------------- the binary search on its own
\* The strictly ascending array of the elements of a set of ids.
RECURSIVE Ascending(_)
Ascending(S) ==
  IF S = {} THEN <<>>
  ELSE LET max == CHOOSE x \in S : \A y \in S : y <= x
       IN  Append(Ascending(S \ {max}), max)

SearchInput(S, key) ==
  [op |-> "input", arg |-> [ids |-> Ascending(S), key |-> key],
   res |-> "void", out |-> NULL]

InitSearch ==
  /\ compact_profile \in BOOLEAN
  /\ ndebug \in BOOLEAN
  /\ engine = "stopped"
  /\ heap = <<>>
  /\ ecma_builtin_objects = [id \in AllBuiltinIds |-> NULL]
  /\ held = [c \in Cells |-> 0]
  /\ order = [id \in AllBuiltinIds |-> TRUE]
  /\ fatal = "none"
  /\ ret \in {SearchInput(S, key) : S \in SUBSET (0..MaxKey), key \in 0..MaxKey}

\* The whole function: the debug build's check of the order, then the loop.
BinSearchCall(m, ids, array_length, key) ==
  [JERRY_ASSERT(m, SortedAscending(ids, array_length))
     EXCEPT !.res = "index",
            !.out = ecma_builtin_bin_search_for_magic_string_id_in_array(
                      ids, array_length, key)]

CommitSearch(m, arg) == Commit(m, "search", arg, m.out)

BinSearch ==
  /\ ret.op = "input"
  /\ CommitSearch(BinSearchCall(Now, ret.arg.ids, Len(ret.arg.ids), ret.arg.key),
                  ret.arg)
  /\ UNCHANGED <<compact_profile, ndebug, engine, held>>

NextSearch == BinSearch

SpecSearch == InitSearch /\ [][NextSearch]_vars

\* ------------------------------------------ the routine id on its own
PackInput(owner_id, routine_id) ==
  [op |-> "input", arg |-> [owner |-> owner_id, routine |-> routine_id],
   res |-> "void", out |-> NULL]

InitPack ==
  /\ compact_profile \in BOOLEAN
  /\ ndebug \in BOOLEAN
  /\ engine = "stopped"
  /\ heap = <<>>
  /\ ecma_builtin_objects = [id \in AllBuiltinIds |-> NULL]
  /\ held = [c \in Cells |-> 0]
  /\ order = [id \in AllBuiltinIds |-> TRUE]
  /\ fatal = "none"
  /\ ret \in {PackInput(owner_id, routine_id) :
                owner_id \in BuiltinIds(compact_profile),
                routine_id \in 0..(ECMA_MAGIC_STRING__COUNT - 1)}

\* Lines 318-330 of ecma_builtin_make_function_object_for_routine: the
\* packed value is stored in the 32-bit internal property.
StorePacked(packed_value) ==
  /\ Commit(JERRY_ASSERT(Now, Fits32(packed_value)), "packed", ret.arg,
            Trunc32(packed_value))

PackAndStore ==
  /\ ret.op = "input"
  /\ StorePacked(PackRoutineId(ret.arg.owner, ret.arg.routine))
  /\ UNCHANGED <<compact_profile, ndebug, engine, held>>

\* Lines 365-380 of ecma_builtin_dispatch_call: the property is read and
\* the two fields are taken out of it.
Unpack ==
  /\ ret.op = "packed"
  /\ fatal = "none"
  /\ Commit(AssertFields(Now, ret.out), "unpacked", ret.arg,
            <<RoutineOwnerField(ret.out), RoutineIdField(ret.out)>>)
  /\ UNCHANGED <<compact_profile, ndebug, engine, held>>

NextPack == PackAndStore \/ Unpack

SpecPack == InitPack /\ [][NextPack]_vars

\* ------------------------------- the Global object's routines on their own
ArgValues ==
  {SimpleValue("undefined"), NumberValue("NaN"), NumberValue("+Infinity"),
   NumberValue("-Infinity"), NumberValue("1"), ScriptObject("throws")}

ArgLists == UNION {[1..n -> ArgValues] : n \in 0..MaxArgs}

RoutineInput(name, arguments_list) ==
  [op |-> "input", arg |-> [name |-> name, args |-> arguments_list],
   res |-> "void", out |-> NULL]

\* The engine has been initialized and no built-in exists yet.
InitRoutine ==
  /\ compact_profile \in BOOLEAN
  /\ ndebug \in BOOLEAN
  /\ engine = "running"
  /\ heap = <<>>
  /\ ecma_builtin_objects = [id \in AllBuiltinIds |-> NULL]
  /\ held = [c \in Cells |-> 0]
  /\ order = [id \in AllBuiltinIds |-> TRUE]
  /\ fatal = "none"
  /\ ret \in {RoutineInput(name, arguments_list) :
                name \in RoutineNames, arguments_list \in ArgLists}

DispatchGlobalRoutine ==
  /\ ret.op = "input"
  /\ CommitCall(ecma_builtin_global_dispatch_routine(
                  Now, MagicId(ret.arg.name), value_undefined, ret.arg.args,
                  Len(ret.arg.args)),
                "routine", ret.arg)
  /\ UNCHANGED <<compact_profile, ndebug, engine>>

NextRoutine == DispatchGlobalRoutine

SpecRoutine == InitRoutine /\ [][NextRoutine]_vars

\* ============================================================ properties
\* The ids of this build, and the machine after a call made in this state.
Ids == BuiltinIds(compact_profile)

\* ------------------------------------------- the instantiation, by steps
\* ecma_instantiate_builtin followed call by call: ret.arg is the id asked
\* for, ret.res the registry the function is to leave, and ret.out holds
\* the stack of the calls in progress (the innermost last), each with its
\* id and its position in the function, the ids entered so far, and whether
\* every assertion evaluated so far was true (also where the build leaves
\* the assertions out).
InstantiateIds ==
  {"OBJECT_PROTOTYPE", "FUNCTION_PROTOTYPE", "OBJECT", "MATH", "GLOBAL",
   "COMPACT_PROFILE_ERROR"}

Frame(id, pc) == [id |-> id, pc |-> pc]

Top(stack) == stack[Len(stack)]

Pop(stack) == SubSeq(stack, 1, Len(stack) - 1)

NoSteps == [stack |-> <<>>, visits |-> <<>>, asserted |-> TRUE]

InitInstantiate ==
  /\ compact_profile \in BOOLEAN
  /\ ndebug \in BOOLEAN
  /\ engine = "running"
  /\ heap = <<>>
  /\ ecma_builtin_objects = [id \in AllBuiltinIds |-> NULL]
  /\ held = [c \in Cells |-> 0]
  /\ order = [id \in AllBuiltinIds |-> TRUE]
  /\ fatal = "none"
  /\ ret = [op |-> "none", arg |-> "NONE",
            res |-> [id \in AllBuiltinIds |-> NULL], out |-> NoSteps]

InProgress == ret.op = "instantiating"

\* ecma_builtin_get and ecma_builtin_is call the function for an empty slot.
InstantiateCall(id) ==
  /\ Running
  /\ ~InProgress
  /\ id \in Ids
  /\ ecma_builtin_objects[id] = NULL
  /\ ret' = [op |-> "instantiating", arg |-> id,
             res |-> ecma_instantiate_builtin(Now, id).objs,
             out |-> [NoSteps EXCEPT !.stack = <<Frame(id, "entry")>>]]
  /\ UNCHANGED <<compact_profile, ndebug, engine, heap, ecma_builtin_objects,
                 held, order, fatal>>

\* One step of the call in progress leaves the machine m and the stack.
CommitStep(m, stack, id, cond) ==
  /\ heap' = m.heap
  /\ ecma_builtin_objects' = m.objs
  /\ order' = m.order
  /\ fatal' = m.fatal
  /\ ret' = [ret EXCEPT !.op = IF stack = <<>> THEN "instantiated" ELSE @,
                        !.out = [stack |-> stack,
                                 visits |-> IF id = COUNT THEN @.visits
                                            ELSE Append(@.visits, id),
                                 asserted |-> @.asserted /\ cond]]
  /\ UNCHANGED <<compact_profile, ndebug, engine, held>>

\* Lines 173-182: the case of the id and the assertion that its slot is
\* empty.
InstantiateEnter ==
  /\ InProgress /\ fatal = "none"
  /\ Top(ret.out.stack).pc = "entry"
  /\ LET id == Top(ret.out.stack).id
     IN  CommitStep(IF id \notin BuiltinIds(compact_profile)
                    THEN JERRY_UNREACHABLE(Now)
                    ELSE JERRY_ASSERT(Now, ecma_builtin_objects[id] = NULL),
                    Append(Pop(ret.out.stack), Frame(id, "resolve")),
                    id,
                    id \in BuiltinIds(compact_profile)
                      /\ ecma_builtin_objects[id] = NULL)

\* Faulty variant: the prototype is instantiated whatever its slot holds.
PrototypeAlways(objs, object_prototype_builtin_id) ==
  object_prototype_builtin_id

\* Lines 185-194: the id the function calls itself for, COUNT for none.
PrototypeToInstantiate(objs, object_prototype_builtin_id) ==
  IF object_prototype_builtin_id # COUNT /\ objs[object_prototype_builtin_id] = NULL
  THEN object_prototype_builtin_id
  ELSE COUNT

InstantiateResolve ==
  /\ InProgress /\ fatal = "none"
  /\ Top(ret.out.stack).pc = "resolve"
  /\ LET id == Top(ret.out.stack).id
         p  == PrototypeToInstantiate(ecma_builtin_objects, Descriptor(id).proto)
     IN  CommitStep(Now,
                    Append(Pop(ret.out.stack), Frame(id, "create"))
                      \o (IF p = COUNT THEN <<>> ELSE <<Frame(p, "entry")>>),
                    COUNT, TRUE)

\* Lines 195-205: the assertion on the prototype, the object, the slot, and
\* the return.  A call that finds no free cell is not followed.
InstantiateCreate ==
  /\ InProgress /\ fatal = "none"
  /\ Top(ret.out.stack).pc = "create"
  /\ LET id == Top(ret.out.stack).id
         d  == Descriptor(id)
         m  == InstantiateObject(Now, id, d)
     IN  /\ ~m.oom
         /\ CommitStep(m, Pop(ret.out.stack), COUNT,
                       d.proto = COUNT \/ ecma_builtin_objects[d.proto] # NULL)

InstantiateStep == InstantiateEnter \/ InstantiateResolve \/ InstantiateCreate

NextInstantiate ==
  \/ \E id \in InstantiateIds : InstantiateCall(id)
  \/ InstantiateEnter
  \/ InstantiateResolve
  \/ InstantiateCreate

\* A call that has begun runs to its end.
SpecInstantiate ==
  InitInstantiate /\ [][NextInstantiate]_vars /\ WF_vars(InstantiateStep)

\* ------------------------------------------- the binary search, by steps
\* ecma_builtin_bin_search_for_magic_string_id_in_array followed iteration
\* by iteration: ret.arg is the array and the key, ret.res the index
\* returned (-1 until then), and ret.out holds min and max, the index read
\* last, the number of iterations, whether every read so far was inside the
\* array, and whether every evaluation of the assertion of the last branch
\* was true (also where the build leaves the assertion out).
MaxLen == 3

RECURSIVE ArraysOf(_)
ArraysOf(n) ==
  IF n = 0 THEN {<<>>}
  ELSE ArraysOf(n - 1)
         \cup {Append(s, v) : s \in {a \in ArraysOf(n - 1) : Len(a) = n - 1},
                              v \in 0..MaxKey}

LoopState(min, max, mid, steps, inrange, asserted) ==
  [min |-> min, max |-> max, mid |-> mid, steps |-> steps,
   inrange |-> inrange, asserted |-> asserted]

InitLoop ==
  /\ compact_profile = FALSE
  /\ ndebug \in BOOLEAN
  /\ engine = "stopped"
  /\ heap = <<>>
  /\ ecma_builtin_objects = [id \in AllBuiltinIds |-> NULL]
  /\ held = [c \in Cells |-> 0]
  /\ order = [id \in AllBuiltinIds |-> TRUE]
  /\ fatal = "none"
  /\ ret \in {[op |-> "input", arg |-> [ids |-> ids, key |-> key], res |-> -1,
               out |-> LoopState(0, 0, -1, 0, TRUE, TRUE)] :
                ids \in ArraysOf(MaxLen), key \in 0..MaxKey}

\* Lines 570-581: the debug build's check of the order, then min and max.
SearchEnter ==
  /\ ret.op = "input"
  /\ fatal' = JERRY_ASSERT(Now, SortedAscending(ret.arg.ids, Len(ret.arg.ids))).fatal
  /\ ret' = [ret EXCEPT !.op = IF fatal' = "none" THEN "loop" ELSE "stopped",
                        !.out = LoopState(0, Len(ret.arg.ids) - 1, -1, 0, TRUE, TRUE)]
  /\ UNCHANGED <<compact_profile, ndebug, engine, heap, ecma_builtin_objects,
                 held, order>>

\* Faulty variant: the search goes on from the index it has just read.
UpperHalfFromMid(mid) == mid

\* Line 599, min = mid + 1.
UpperHalf(mid) == mid + 1

\* Lines 583-601, one iteration: ids[mid] is read, a read outside the array
\* gives any value.
SearchProbe ==
  /\ ret.op = "loop"
  /\ ret.out.min <= ret.out.max
  /\ LET mid == (ret.out.min + ret.out.max) \div 2
         inside == mid >= 0 /\ mid < Len(ret.arg.ids)
         now == [ret.out EXCEPT !.mid = mid, !.steps = @ + 1,
                                !.inrange = @ /\ inside]
     IN  \E read \in (IF inside THEN {ret.arg.ids[mid + 1]} ELSE 0..MaxKey) :
           IF read = ret.arg.key
           THEN /\ ret' = [ret EXCEPT !.op = "returned", !.res = mid, !.out = now]
                /\ fatal' = fatal
           ELSE IF read > ret.arg.key
           THEN /\ ret' = [ret EXCEPT !.out = [now EXCEPT !.max = mid - 1]]
                /\ fatal' = fatal
           ELSE /\ fatal' = JERRY_ASSERT(Now, read < ret.arg.key).fatal
                /\ ret' = [ret EXCEPT
                             !.op = IF fatal' = "none" THEN "loop" ELSE "stopped",
                             !.out = [now EXCEPT
                                        !.min = UpperHalf(mid),
                                        !.asserted = @ /\ read < ret.arg.key]]
  /\ UNCHANGED <<compact_profile, ndebug, engine, heap, ecma_builtin_objects,
                 held, order>>

\* Lines 583 and 603: the interval is empty, the function returns -1.
SearchMiss ==
  /\ ret.op = "loop"
  /\ ret.out.min > ret.out.max
  /\ ret' = [ret EXCEPT !.op = "returned", !.res = -1]
  /\ UNCHANGED <<compact_profile, ndebug, engine, heap, ecma_builtin_objects,
                 held, order, fatal>>

NextLoop == SearchEnter \/ SearchProbe \/ SearchMiss

\* The function runs in one thread and nothing suspends it: a step that
\* can be taken is taken.
SpecLoop == InitLoop /\ [][NextLoop]_vars /\ WF_vars(NextLoop)

\* ------------------------------------------------------------------- C1
\* What get and is answer in a state: get returns the object of the slot,
\* the one already there if there is one, and is answers true for exactly
\* the object a following get returns.
GetIsAgree ==
  \A id \in Ids :
    LET g == ecma_builtin_get(Now, id)
    IN  /\ ~Dead(g) =>
             /\ g.out = g.objs[id]
             /\ ecma_builtin_objects[id] # NULL => g.out = ecma_builtin_objects[id]
             /\ ecma_builtin_get([g EXCEPT !.out = NULL], id).out = g.out
        /\ \A obj_p \in DOMAIN heap :
             LET i == ecma_builtin_is(Now, obj_p, id)
             IN  ~Dead(i) =>
                   /\ i.res \in {"true", "false"}
                   /\ i.res = "true" <=> obj_p = ecma_builtin_get(i, id).out

\* A step between init and teardown leaves every populated slot as it is.
SlotsStay ==
  (engine = "running" /\ engine' = "running") =>
     \A id \in AllBuiltinIds :
       ecma_builtin_objects[id] # NULL =>
         ecma_builtin_objects'[id] = ecma_builtin_objects[id]

\* C1: between init and teardown any two calls of get(id), whatever registry
\* operations come between them, return the same object, and is(object, id)
\* is true if and only if object is that object.
C1_SingletonIdentity ==
  /\ [](Running => GetIsAgree)
  /\ [][SlotsStay]_vars

\* C1 witness: a client holding two references from two calls of get on one
\* object has asked is about an id and was told true.
C1_Witness ==
  /\ ret.op = "is" /\ ret.res = "true"
  /\ ecma_builtin_objects[ret.arg] # NULL
  /\ held[ecma_builtin_objects[ret.arg]] = 2

\* ------------------------------------------------------------------- C2
SlotsValid(h, objs) ==
  LET live == Live(h)
  IN  \A id \in AllBuiltinIds :
        objs[id] # NULL =>
          /\ objs[id] \in live
          /\ h[objs[id]].built_in_id = id
          /\ h[objs[id]].is_builtin

\* C2: in every reachable state each slot is empty or points to a live
\* object that records the slot's id as its BUILT_IN_ID and is flagged
\* is-builtin; so it is after a get of any id of the build.
C2_SlotsValid ==
  /\ SlotsValid(heap, ecma_builtin_objects)
  /\ Running =>
       \A id \in Ids :
         LET g == ecma_builtin_get(Now, id)
         IN  ~Dead(g) => SlotsValid(g.heap, g.objs)

\* C2 witness: the Global object and its prototype are in their slots, kept
\* alive by the registry alone.
C2_Witness ==
  /\ ecma_builtin_objects["GLOBAL"] # NULL
  /\ ecma_builtin_objects["OBJECT_PROTOTYPE"] # NULL
  /\ HeldTotal = 0
  /\ Collected

\* ------------------------------------------------------------------- C3
\* C3 (as stated): at most one live object records any given BuiltinId,
\* also when a client keeps a reference over a teardown and a re-init.
C3_AtMostOneLivePerId ==
  \A c, d \in Live(heap) :
    (heap[c].built_in_id # "NONE" /\ heap[c].built_in_id = heap[d].built_in_id)
      => c = d

\* ------------------------------------------------------------------- C4
PrototypesFirst(h, objs, ord) ==
  \A id \in AllBuiltinIds :
    objs[id] # NULL =>
      LET p == Descriptor(id).proto
      IN  IF p = COUNT THEN h[objs[id]].prototype = NULL
          ELSE /\ objs[p] # NULL
               /\ ord[id]
               /\ h[objs[id]].prototype = objs[p]

\* C4: a populated slot whose id declares a prototype id has that id's slot
\* populated, populated no later than its own, and its object's prototype is
\* the object of that slot; an id that declares none has a null prototype.
C4_PrototypeBeforeDependent ==
  /\ PrototypesFirst(heap, ecma_builtin_objects, order)
  /\ Running =>
       \A id \in Ids :
         LET g == ecma_builtin_get(Now, id)
         IN  ~Dead(g) => PrototypesFirst(g.heap, g.objs, g.order)

\* C4 witness: get of the Global object has filled its slot and, before it,
\* the slot of its prototype, which has no prototype.
C4_Witness ==
  /\ ret.op = "get" /\ ret.arg = "GLOBAL"
  /\ ecma_builtin_objects["OBJECT_PROTOTYPE"] # NULL
  /\ heap[ret.out].prototype = ecma_builtin_objects["OBJECT_PROTOTYPE"]
  /\ heap[heap[ret.out].prototype].prototype = NULL
  /\ order["GLOBAL"]

\* ------------------------------------------------------------------- C5
\* C5: between init and teardown the singleton of a populated slot counts
\* one reference for the registry and one for each result of get not yet
\* released; get adds exactly one, and is changes the count of no object
\* that exists.
C5_ReferenceCounts ==
  (engine = "running" /\ fatal = "none") =>
    /\ \A id \in AllBuiltinIds :
         ecma_builtin_objects[id] # NULL =>
           heap[ecma_builtin_objects[id]].refs = 1 + held[ecma_builtin_objects[id]]
    /\ Collected =>
         \A id \in Ids :
           /\ LET g == ecma_builtin_get(Now, id)
              IN  ~Dead(g) =>
                    /\ g.heap[g.out].refs =
                         IF g.out \in DOMAIN heap THEN heap[g.out].refs + 1 ELSE 2
                    /\ \A c \in DOMAIN heap \ {g.out} : g.heap[c].refs = heap[c].refs
           /\ \A obj_p \in DOMAIN heap :
                LET i == ecma_builtin_is(Now, obj_p, id)
                IN  ~Dead(i) => \A c \in DOMAIN heap : i.heap[c].refs = heap[c].refs

\* C5 witness: two results of get on one singleton are outstanding.
C5_Witness ==
  /\ ret.op = "get" /\ engine = "running"
  /\ ret.out = ecma_builtin_objects[ret.arg]
  /\ held[ret.out] = 2 /\ heap[ret.out].refs = 3

\* ------------------------------------------------------------------- C6
SlotOf(objs, c) == {id \in AllBuiltinIds : objs[id] = c}

\* C6: teardown gives up the registry's reference on the object of every
\* populated slot exactly once and empties every slot; a second teardown
\* releases nothing; init and get(id) after it make a new singleton.
C6_TeardownAndRestart ==
  Alive =>
    LET f  == ecma_finalize_builtins(Now)
        f2 == ecma_finalize_builtins(f)
        r  == ecma_init_builtins(f)
    IN  /\ f.fatal = "none"
        /\ \A id \in AllBuiltinIds : f.objs[id] = NULL
        /\ DOMAIN f.heap = DOMAIN heap
        /\ \A c \in DOMAIN heap :
             /\ Cardinality(SlotOf(ecma_builtin_objects, c)) <= 1
             /\ f.heap[c].refs =
                  heap[c].refs - Cardinality(SlotOf(ecma_builtin_objects, c))
        /\ f2.heap = f.heap /\ f2.objs = f.objs /\ f2.fatal = "none"
        /\ \A id \in Ids :
             LET g == ecma_builtin_get(r, id)
             IN  ~Dead(g) =>
                   /\ g.out \notin DOMAIN heap
                   /\ g.objs[id] = g.out
                   /\ g.heap[g.out].built_in_id = id
                   /\ g.heap[g.out].refs = 2

\* C6 witness: in a second cycle get has made a new singleton while a client
\* still holds the one of the cycle before, which the teardown released once.
C6_Witness ==
  /\ ret.op = "get" /\ engine = "running"
  /\ \E c \in DOMAIN heap :
       /\ c # ret.out
       /\ heap[c].built_in_id = ret.arg
       /\ held[c] = 1 /\ heap[c].refs = 1

\* =============================================== properties of the Global
\* The Global object of the registry, the names of its table in this build,
\* and the names that are not in the table.
GlobalObject == ecma_builtin_objects["GLOBAL"]

TableNames ==
  {GlobalPropertyNames(compact_profile)[i] :
     i \in 1..ecma_builtin_global_property_number(compact_profile)}

OtherNames == (MagicNames \ TableNames) \cup {"doesNotExist", "foo"}

\* The bit of a table name: its index in the sorted table.
BitOf(name) ==
  ecma_builtin_bin_search_for_magic_string_id_in_array(
    ecma_builtin_global_property_names(compact_profile),
    ecma_builtin_global_property_number(compact_profile), MagicId(name))

HasBit(h, obj_p, i) == h[obj_p].mask >= 0 /\ BitSet(h[obj_p].mask, i)

CountNamed(h, obj_p, name) ==
  Cardinality({i \in 1..Len(h[obj_p].props) : h[obj_p].props[i].name = name})

\* The names the lazy instantiation has not yet touched on the Global object.
Untouched(name) ==
  /\ ~HasBit(heap, GlobalObject, BitOf(name))
  /\ ecma_find_named_property(heap, GlobalObject, name) = 0

\* The call, and the same call once more right after it.
Try(m, name) ==
  ecma_builtin_try_to_instantiate_property(m, GlobalObject, name)

\* The members this build materializes: all under the compact profile, all
\* but Date, RegExp, the Error types and JSON otherwise.
Implemented(name) == compact_profile \/ name \notin UnimplementedNames

\* ------------------------------------------------------------------- C7
\* C7 (as stated): of two calls in succession for a table name not yet
\* materialized the first creates and returns the property, the second
\* returns none, and the object has exactly one own property of that name.
C7_TwiceInSuccession ==
  (Running /\ GlobalObject # NULL) =>
    \A name \in TableNames :
      Untouched(name) =>
        LET m1 == Try(Now, name)
            m2 == Try(m1, name)
        IN  ~m1.oom =>
              /\ m1.fatal = "none" /\ m1.res = "prop"
              /\ m2.fatal = "none" /\ m2.res = "none"
              /\ CountNamed(m2.heap, GlobalObject, name) = 1

\* C7 (amended): for a member this build materializes the first call creates
\* and returns the property; the second call returns none and changes
\* nothing in a JERRY_NDEBUG build, and stops at the entry assertion in a
\* debug build; either way the object has exactly one own property of that
\* name.  For a member the build does not materialize the first call ends
\* in the fatal "not implemented".
C7_TwiceInSuccessionAmended ==
  (Running /\ GlobalObject # NULL) =>
    \A name \in TableNames :
      Untouched(name) =>
        LET m1 == Try(Now, name)
            m2 == Try(m1, name)
        IN  ~m1.oom =>
              IF Implemented(name)
              THEN /\ m1.fatal = "none" /\ m1.res = "prop"
                   /\ CountNamed(m1.heap, GlobalObject, name) = 1
                   /\ HasBit(m1.heap, GlobalObject, BitOf(name))
                   /\ IF ndebug
                      THEN /\ m2.fatal = "none" /\ m2.res = "none"
                           /\ m2.heap = m1.heap /\ m2.objs = m1.objs
                      ELSE /\ m2.fatal = "assert"
                           /\ CountNamed(m2.heap, GlobalObject, name) = 1
              ELSE m1.fatal = "unimplemented"

\* C7 witness: in a JERRY_NDEBUG build the second call for a name has
\* returned none and the property of the first call is there, once.
C7_Witness ==
  /\ ret.op = "try" /\ ret.res = "none" /\ ndebug
  /\ ret.arg \in TableNames
  /\ CountNamed(heap, ret.out, ret.arg) = 1

\* ------------------------------------------------------------------- C8
\* The Global objects of the heap.
GlobalObjects == {c \in DOMAIN heap : heap[c].built_in_id = "GLOBAL"}

\* C8 (as stated): between operations bit i of the mask is set if and only
\* if the i-th property of the table exists as an own property.
C8_BitIffProperty ==
  fatal = "none" =>
    \A c \in GlobalObjects : \A name \in TableNames :
      HasBit(heap, c, BitOf(name)) <=> ecma_find_named_property(heap, c, name) # 0

\* C8 (amended): a table property that exists as an own property has its
\* bit set; a set bit says only that the property was materialized once,
\* script code may have deleted it since.
C8_PropertyImpliesBit ==
  \A c \in GlobalObjects : \A name \in TableNames :
    ecma_find_named_property(heap, c, name) # 0 => HasBit(heap, c, BitOf(name))

\* C8 witness: a call has just materialized a property and set its bit.
C8_Witness ==
  /\ ret.op = "try" /\ ret.res = "prop"
  /\ ecma_find_named_property(heap, ret.out, ret.arg) # 0
  /\ HasBit(heap, ret.out, BitOf(ret.arg))

\* ------------------------------------------------------------------- C9
\* No call and no deletion clears a bit of the mask.
BitsKept ==
  \A name \in TableNames \cup OtherNames :
    LET m == Try(Now, name)
        d == ecma_op_delete(Now, GlobalObject, name)
    IN  \A i \in 0..(ecma_builtin_global_property_number(compact_profile) - 1) :
          HasBit(heap, GlobalObject, i) =>
            /\ ~m.oom => HasBit(m.heap, GlobalObject, i)
            /\ HasBit(d.heap, GlobalObject, i)

\* C9 (as stated): a bit once set is never cleared, and a call for a name
\* whose bit is set returns none without creating a property, also after
\* the property was deleted.
C9_MaterializedOnce ==
  (Running /\ GlobalObject # NULL) =>
    /\ BitsKept
    /\ \A name \in TableNames :
         HasBit(heap, GlobalObject, BitOf(name)) =>
           LET m == Try(Now, name)
           IN  m.fatal = "none" /\ m.res = "none" /\ m.heap = heap

\* C9 (amended): a bit once set is never cleared; a call for a name whose
\* bit is set creates no property, and returns none when the object has no
\* own property of that name (so after a deletion) or the build is
\* JERRY_NDEBUG; in a debug build a call made while the property exists
\* stops at the entry assertion.
C9_MaterializedOnceAmended ==
  (Running /\ GlobalObject # NULL) =>
    /\ BitsKept
    /\ \A name \in TableNames :
         HasBit(heap, GlobalObject, BitOf(name)) =>
           LET m == Try(Now, name)
           IN  /\ m.heap = heap /\ m.objs = ecma_builtin_objects
               /\ IF ndebug \/ ecma_find_named_property(heap, GlobalObject, name) = 0
                  THEN m.fatal = "none" /\ m.res = "none"
                  ELSE m.fatal = "assert"

\* C9 witness: a call for a name whose property was materialized and then
\* deleted has returned none, and the property is still absent.
C9_Witness ==
  /\ ret.op = "try" /\ ret.res = "none"
  /\ ret.arg \in TableNames
  /\ HasBit(heap, ret.out, BitOf(ret.arg))
  /\ ecma_find_named_property(heap, ret.out, ret.arg) = 0

\* ------------------------------------------------------------------ C10
\* C10: a call on the Global object for a name that is not a magic string,
\* or is a magic string the table does not hold, returns none and leaves
\* the mask (and whether the object has one), the properties and every
\* slot of the registry as they were.
C10_NoMatchNoEffect ==
  (Running /\ GlobalObject # NULL) =>
    \A name \in OtherNames :
      LET m == Try(Now, name)
      IN  /\ m.fatal = "none" /\ ~m.oom
          /\ m.res = "none"
          /\ m.heap = heap
          /\ m.objs = ecma_builtin_objects

\* C10 witness: a call for such a name has returned none on a Global object
\* that has no mask yet.
C10_Witness ==
  /\ ret.op = "try" /\ ret.res = "none"
  /\ ret.arg \in OtherNames
  /\ heap[ret.out].mask = -1

\* ------------------------------------------------------------------ C11
\* C11: on every strictly ascending array, the empty one included, and for
\* every key, the binary search returns the one index at which the array
\* holds the key when there is one, and -1 exactly when there is none; it
\* never aborts.
Holders(ids, key) == {i \in 0..(Len(ids) - 1) : ids[i + 1] = key}

C11_SearchFindsTheIndex ==
  ret.op = "search" =>
    /\ ret.res = "index"
    /\ (Holders(ret.arg.ids, ret.arg.key) # {}
          => Holders(ret.arg.ids, ret.arg.key) = {ret.out})
    /\ (ret.out = -1 <=> Holders(ret.arg.ids, ret.arg.key) = {})

C11_Witness ==
  /\ ret.op = "search"
  /\ Len(ret.arg.ids) >= 3
  /\ ret.out = Len(ret.arg.ids) - 1

\* ------------------------------------------------------------------ C12
\* C12: for every built-in id of the build and every magic string id, the
\* pair packed by the routine function's constructor, stored in the 32-bit
\* internal property and unpacked by the call dispatcher is the same pair:
\* the store loses nothing, the fields do not overlap, the decoded owner id
\* is below ECMA_BUILTIN_ID__COUNT, and no assertion fires.
C12_PackRoundTrip ==
  /\ ret.op \in {"packed", "unpacked"} => fatal = "none"
  /\ ret.op = "packed" =>
       ret.out = PackRoutineId(ret.arg.owner, ret.arg.routine)
  /\ ret.op = "unpacked" =>
       /\ ret.out = <<BuiltinIdValue(ret.arg.owner), ret.arg.routine>>
       /\ ret.out[1] < ECMA_BUILTIN_ID__COUNT

C12_Witness ==
  /\ ret.op = "unpacked"
  /\ ret.arg.owner = "GLOBAL"
  /\ ret.arg.routine = ECMA_MAGIC_STRING__COUNT - 1
  /\ ret.out = <<BuiltinIdValue("GLOBAL"), ECMA_MAGIC_STRING__COUNT - 1>>

\* ------------------------------------------------------------------ C13
\* The function object a call has made the value of the property name.
RoutineObjectOf(m, name) ==
  m.heap[GlobalObject].props[ecma_find_named_property(m.heap, GlobalObject, name)].value.o

\* The routine names whose property of a Global object holds the object c.
NamesHolding(c) ==
  {name \in RoutineNames :
     \E g \in GlobalObjects :
       /\ ecma_find_named_property(heap, g, name) # 0
       /\ heap[g].props[ecma_find_named_property(heap, g, name)].value = ObjectValue(c)}

\* Only the body of a routine that is not implemented stops the process.
HandlerFatal(f, name) ==
  \/ f = "none"
  \/ f = "unimplemented" /\ ~compact_profile /\ name \notin {"IS_NAN", "IS_FINITE"}

\* C13: for each of the nine routine names of the Global object, the call
\* dispatcher, given the function object the lazy instantiation created
\* for the name, reaches the C function of that name through the Global
\* object's routine dispatcher, and no fatal branch of a dispatcher.
C13_DispatchReachesHandler ==
  /\ (Running /\ GlobalObject # NULL) =>
       \A name \in RoutineNames :
         Untouched(name) =>
           LET m1 == Try(Now, name)
           IN  ~m1.oom =>
                 LET m2 == ecma_builtin_dispatch_call(
                             m1, RoutineObjectOf(m1, name), SimpleValue("undefined"),
                             <<>>, 0)
                 IN  /\ m1.fatal = "none" /\ m1.res = "prop"
                     /\ ~m2.oom =>
                          /\ m2.call.kind = "routine" /\ m2.call.owner = "GLOBAL"
                          /\ m2.call.name = name
                          /\ HandlerFatal(m2.fatal, name)
  /\ (ret.op = "call" /\ NamesHolding(ret.arg) # {}) =>
       /\ ret.out.kind = "routine" /\ ret.out.owner = "GLOBAL"
       /\ NamesHolding(ret.arg) = {ret.out.name}
       /\ HandlerFatal(fatal, ret.out.name)

C13_Witness ==
  /\ ret.op = "call" /\ fatal = "none"
  /\ NamesHolding(ret.arg) = {"PARSE_INT"}
  /\ ret.out.kind = "routine" /\ ret.out.name = "PARSE_INT"
  /\ ret.res.type = "throw"

\* ------------------------------------------------------------------ C14
ConstantValue(name) ==
  CASE name = "NAN"         -> [t |-> "number", o |-> NULL, n |-> "NaN"]
    [] name = "INFINITY_UL" -> [t |-> "number", o |-> NULL, n |-> "+Infinity"]
    [] name = "UNDEFINED"   -> [t |-> "simple", o |-> NULL, n |-> "undefined"]

ConstantProperty(name) ==
  [name |-> name, kind |-> "data", value |-> ConstantValue(name),
   get |-> NULL, set |-> NULL, writable |-> FALSE, enumerable |-> FALSE,
   configurable |-> FALSE]

\* C14: the lazy instantiation of NaN, Infinity and undefined on the Global
\* object installs a data property that is not writable, not enumerable
\* and not configurable and holds NaN, positive infinity and the undefined
\* value.
C14_ConstantsFrozen ==
  (Running /\ GlobalObject # NULL) =>
    \A name \in {"NAN", "INFINITY_UL", "UNDEFINED"} :
      Untouched(name) =>
        LET m1 == Try(Now, name)
        IN  /\ ~m1.oom /\ m1.fatal = "none" /\ m1.res = "prop"
            /\ m1.heap[GlobalObject].props
                 = <<ConstantProperty(name)>> \o heap[GlobalObject].props
            /\ m1.objs = ecma_builtin_objects

C14_Witness ==
  /\ ret.op = "try" /\ ret.arg = "NAN" /\ ret.res = "prop"
  /\ heap[ret.out].props[1] = ConstantProperty("NAN")

\* ------------------------------------------------------------------ C16
ThrowerNames ==
  {"DATE_UL", "REG_EXP_UL", "ERROR_UL", "EVAL_ERROR_UL", "RANGE_ERROR_UL",
   "REFERENCE_ERROR_UL", "SYNTAX_ERROR_UL", "TYPE_ERROR_UL", "URI_ERROR_UL",
   "JSON_U"}

IsThrower(h, objs, p, name) ==
  /\ p.name = name /\ p.kind = "accessor"
  /\ p.get # NULL /\ p.get = p.set
  /\ p.get = objs["COMPACT_PROFILE_ERROR"]
  /\ h[p.get].built_in_id = "COMPACT_PROFILE_ERROR"

\* C16: under the compact profile the lazy instantiation of Date, RegExp,
\* the Error types and JSON on the Global object installs and returns an
\* accessor property whose getter and setter are the same object, the
\* CompactProfileError built-in, and no data property.
C16_CompactProfileThrower ==
  (compact_profile /\ Running /\ GlobalObject # NULL) =>
    \A name \in ThrowerNames :
      Untouched(name) =>
        LET m1 == Try(Now, name)
        IN  ~m1.oom =>
              /\ m1.fatal = "none" /\ m1.res = "prop"
              /\ IsThrower(m1.heap, m1.objs, m1.heap[GlobalObject].props[1], name)
              /\ CountNamed(m1.heap, GlobalObject, name) = 1

C16_Witness ==
  /\ compact_profile
  /\ ret.op = "try" /\ ret.arg = "DATE_UL" /\ ret.res = "prop"
  /\ IsThrower(heap, ecma_builtin_objects, heap[ret.out].props[1], "DATE_UL")

\* ------------------------------------------------------------------ C15
\* The "length" property of a routine function object.
LengthProperty(n) ==
  [name |-> "LENGTH", kind |-> "data", value |-> NumberValue(n),
   get |-> NULL, set |-> NULL, writable |-> FALSE, enumerable |-> FALSE,
   configurable |-> FALSE]

DeclaredLength(name) == IF name = "PARSE_INT" THEN 2 ELSE 1

IsRoutineFunction(h, objs, c, name) ==
  /\ c \in DOMAIN h
  /\ h[c].type = "BUILT_IN_FUNCTION"
  /\ objs["FUNCTION_PROTOTYPE"] # NULL
  /\ h[c].prototype = objs["FUNCTION_PROTOTYPE"]
  /\ h[c].props = <<LengthProperty(DeclaredLength(name))>>

\* C15: every routine function object has the registry's Function.prototype
\* as its prototype and one "length" data property, not writable, not
\* enumerable, not configurable, of the routine's declared length: 2 for
\* parseInt and 1 for the other routines of the Global object.
C15_RoutineFunctionShape ==
  /\ (Running /\ GlobalObject # NULL) =>
       \A name \in RoutineNames :
         Untouched(name) =>
           LET m1 == Try(Now, name)
           IN  ~m1.oom =>
                 /\ m1.fatal = "none"
                 /\ IsRoutineFunction(m1.heap, m1.objs, RoutineObjectOf(m1, name), name)
  /\ fatal = "none" =>
       \A c \in DOMAIN heap :
         heap[c].type = "BUILT_IN_FUNCTION" =>
           \E name \in NamesHolding(c) :
             IsRoutineFunction(heap, ecma_builtin_objects, c, name)

C15_Witness ==
  /\ ret.op = "try" /\ ret.arg = "PARSE_INT" /\ ret.res = "prop"
  /\ IsRoutineFunction(heap, ecma_builtin_objects,
                       heap[ret.out].props[1].value.o, "PARSE_INT")
  /\ heap[heap[ret.out].props[1].value.o].props[1].value = NumberValue(2)

\* ------------------------------------------------------------------ C19
\* What the call or construct handler of the variant of an object returns.
VariantCompletion(c) ==
  IF heap[c].built_in_id = "COMPACT_PROFILE_ERROR"
  THEN ThrowCompletion(ObjectValue(ecma_builtin_objects["COMPACT_PROFILE_ERROR"]))
  ELSE HandlerCompletion

\* The object is the one the registry holds for the id it records.
IsSingleton(c) ==
  /\ heap[c].built_in_id \in Ids
  /\ ecma_builtin_objects[heap[c].built_in_id] = c

\* C19: the call dispatcher, on a routine function object, decodes the
\* pair the object stores and calls the owner's routine dispatcher with
\* that routine id; on any other built-in object of kind FUNCTION it calls
\* the call handler of the variant whose id the object records; on a
\* built-in object of another kind it stops the process and returns no
\* completion value.
C19_CallDispatch ==
  ret.op = "call" =>
    CASE heap[ret.arg].type = "BUILT_IN_FUNCTION" ->
           /\ ret.out.kind = "routine"
           /\ BuiltinIdValue(ret.out.owner) = RoutineOwnerField(heap[ret.arg].routine_id)
           /\ MagicId(ret.out.name) = RoutineIdField(heap[ret.arg].routine_id)
           /\ ret.out.formals = <<SimpleValue("undefined")>>
                \/ ret.out.formals = <<NumberValue("1")>>
                \/ ret.out.formals = <<SimpleValue("undefined"), SimpleValue("undefined")>>
                \/ ret.out.formals = <<NumberValue("1"), SimpleValue("undefined")>>
           /\ HandlerFatal(fatal, ret.out.name)
      [] heap[ret.arg].type = "FUNCTION" /\ (ndebug \/ IsSingleton(ret.arg)) ->
           /\ fatal = "none"
           /\ ret.out.kind = "call" /\ ret.out.owner = heap[ret.arg].built_in_id
           /\ ret.res = VariantCompletion(ret.arg)
      [] heap[ret.arg].type = "FUNCTION" /\ ~(ndebug \/ IsSingleton(ret.arg)) ->
           fatal = "assert" /\ ret.out.kind = "none"
      [] OTHER ->
           /\ fatal = (IF ndebug THEN "unreachable" ELSE "assert")
           /\ ret.res = "fatal"
           /\ ret.out.kind = "none"

C19_Witness ==
  /\ ret.op = "call" /\ ndebug
  /\ heap[ret.arg].built_in_id = "GLOBAL"
  /\ fatal = "unreachable" /\ ret.res = "fatal"

\* ------------------------------------------------------------------ C20
\* C20 (as stated): the construct dispatcher, on a built-in object of kind
\* FUNCTION that is the registry's object of its id, calls the construct
\* handler of that variant; on a routine function object and on a built-in
\* object of another kind it stops the process and returns no completion
\* value.
C20_ConstructDispatch ==
  ret.op = "construct" =>
    IF heap[ret.arg].type = "FUNCTION"
    THEN IsSingleton(ret.arg) =>
           /\ fatal = "none"
           /\ ret.out.kind = "construct" /\ ret.out.owner = heap[ret.arg].built_in_id
           /\ ret.res = VariantCompletion(ret.arg)
    ELSE /\ fatal # "none"
         /\ ret.res = "fatal"
         /\ ret.out.kind = "none"

\* ------------------------------------------------------------------ C17
\* C17: a routine of the Global object with k formal parameters, called
\* with n arguments, gets as its j-th parameter the j-th argument when
\* j <= n and undefined when j > n; arguments after the k-th are ignored,
\* the list is never read at a position it does not have, and a short list
\* is no error: nothing stops the process but a routine that is not
\* implemented, whatever its arguments.
Arity(name) == IF name = "PARSE_INT" THEN 2 ELSE 1

ImplementedRoutines == {"IS_NAN", "IS_FINITE"}

C17_ArgumentConvention ==
  ret.op = "routine" =>
    /\ ret.out.kind = "routine" /\ ret.out.name = ret.arg.name
    /\ Len(ret.out.formals) = Arity(ret.arg.name)
    /\ \A j \in 1..Arity(ret.arg.name) :
         ret.out.formals[j] = IF j <= Len(ret.arg.args) THEN ret.arg.args[j]
                              ELSE SimpleValue("undefined")
    /\ ret.out.reads \subseteq 1..Len(ret.arg.args)
    /\ fatal # "none" =>
         /\ fatal = "unimplemented"
         /\ ~compact_profile
         /\ ret.arg.name \notin ImplementedRoutines
    /\ (ret.arg.args = <<>> /\ ret.arg.name \in ImplementedRoutines)
         => ret.res.type = "normal"

C17_Witness ==
  /\ ret.op = "routine"
  /\ ret.arg.name = "PARSE_INT"
  /\ Len(ret.arg.args) = 1
  /\ ret.out.formals = <<ret.arg.args[1], SimpleValue("undefined")>>
  /\ ret.out.reads = {1}

\* ------------------------------------------------------------------ C18
\* C18: isNaN and isFinite hand on the throw completion of the conversion
\* of their argument as it is, with nothing computed; on a normal completion
\* they return a normal boolean (isNaN: the number is NaN; isFinite: it is
\* neither NaN nor an infinity) and free the number exactly once.
Converted(name, args) == NumberOf(IF args = <<>> THEN SimpleValue("undefined") ELSE args[1])

BooleanOf(name, n) ==
  IF name = "IS_NAN" THEN n = "NaN" ELSE n \notin {"NaN", "+Infinity", "-Infinity"}

C18_ThrowHandedOn ==
  (ret.op = "routine" /\ ret.arg.name \in ImplementedRoutines) =>
    /\ fatal = "none"
    /\ IF Converted(ret.arg.name, ret.arg.args) = "throws"
       THEN /\ ret.res = ThrowCompletion(TypeError)
            /\ ret.out.allocs = 0 /\ ret.out.frees = 0
       ELSE /\ ret.res = NormalCompletion(SimpleValue(
                  IF BooleanOf(ret.arg.name, Converted(ret.arg.name, ret.arg.args))
                  THEN "true" ELSE "false"))
            /\ ret.out.allocs = 1 /\ ret.out.frees = 1

C18_Witness ==
  /\ ret.op = "routine"
  /\ ret.arg.name = "IS_FINITE"
  /\ ret.arg.args # <<>> /\ ret.arg.args[1] = ScriptObject("throws")
  /\ ret.res = ThrowCompletion(TypeError)

\* ------------------------------------------------------------------ C21
\* The ids of the prototype chain of an id, the id itself included.
RECURSIVE ChainOf(_)
ChainOf(id) ==
  IF id = COUNT THEN {} ELSE {id} \cup ChainOf(Descriptor(id).proto)

\* C21: is(object, id) with the slot of id empty fills the slot and the
\* empty slots of the id's prototype chain, answers false for every object
\* that existed before the call, and leaves the slot populated; with the
\* slot populated it changes no slot.
C21_IsInstantiates ==
  Running =>
    \A id \in Ids, obj_p \in DOMAIN heap :
      LET m1 == ecma_builtin_is(Now, obj_p, id)
      IN  ~m1.oom =>
            /\ m1.fatal = "none"
            /\ ecma_builtin_objects[id] = NULL =>
                 /\ m1.res = "false"
                 /\ m1.objs[id] # NULL /\ m1.objs[id] \notin DOMAIN heap
                 /\ \A a \in ChainOf(id) : m1.objs[a] # NULL
                 /\ \A a \in AllBuiltinIds \ ChainOf(id) :
                      m1.objs[a] = ecma_builtin_objects[a]
            /\ ecma_builtin_objects[id] # NULL =>
                 /\ m1.objs = ecma_builtin_objects
                 /\ m1.heap = heap

\* C21 witness: is was asked about an id whose slot was empty, created the
\* object that is in the slot now, and answered false.
C21_Witness ==
  /\ ret.op = "is" /\ ret.res = "false"
  /\ ret.out # NULL /\ ret.out = ecma_builtin_objects[ret.arg]
  /\ ret.arg = "GLOBAL"
  /\ ecma_builtin_objects["OBJECT_PROTOTYPE"] # NULL

\* ------------------------------------------------------------------ C22
Distinct(s) == \A i, j \in 1..Len(s) : s[i] = s[j] => i = j

\* The ids of the calls in progress.
StackIds(stack) == [i \in 1..Len(stack) |-> stack[i].id]

InstantiationSafe ==
  ret.op \in {"instantiating", "instantiated"} =>
    /\ fatal = "none"
    /\ ret.out.asserted
    /\ Distinct(ret.out.visits)
    /\ Distinct(StackIds(ret.out.stack))
    /\ \A i \in 1..Len(ret.out.visits) : ret.out.visits[i] \in ChainOf(ret.arg)
    /\ ret.op = "instantiated" => ecma_builtin_objects = ret.res

\* C22: the instantiation of an id of the build, from any registry state
\* the engine reaches, comes to its end; it enters each id of the prototype
\* chain at most once, never an id whose instantiation is in progress, and
\* every evaluation of the assertion that the slot is empty and of the
\* assertion that the prototype is not null is true.
C22_InstantiationTerminates ==
  /\ []InstantiationSafe
  /\ (ret.op = "instantiating") ~> (ret.op = "instantiated")

\* C22 witness: the instantiation of the Object constructor with an empty
\* registry has entered three ids and has come to its end.
C22_Witness ==
  /\ ret.op = "instantiated" /\ ret.arg = "OBJECT"
  /\ ret.out.visits = <<"OBJECT", "FUNCTION_PROTOTYPE", "OBJECT_PROTOTYPE">>
  /\ ret.out.stack = <<>>
  /\ ecma_builtin_objects["OBJECT"] # NULL

\* ------------------------------------------------------------------ C23
\* Only the mask of the object differs between the heaps.
OnlyMaskDiffers(h1, h0, obj_p) ==
  /\ DOMAIN h1 = DOMAIN h0
  /\ \A c \in DOMAIN h0 : c # obj_p => h1[c] = h0[c]
  /\ [h1[obj_p] EXCEPT !.mask = h0[obj_p].mask] = h0[obj_p]

\* The call for the same object and name returns none and creates nothing.
NoneAndNothing(s, name) ==
  ~Dead(s) =>
    LET r == Try(s, name)
    IN  /\ r.fatal = "none" /\ ~r.oom
        /\ r.res = "none"
        /\ r.heap = s.heap /\ r.objs = s.objs

\* C23: the bit of the found name is set in the mask before anything of
\* the materialization is done (no registry get, no object, no property),
\* and a call for the same object and name made during the materialization
\* returns none and creates nothing.
C23_BitBeforeMaterialization ==
  /\ (Running /\ GlobalObject # NULL) =>
       \A name \in TableNames :
         Untouched(name) =>
           LET s0 == GlobalSetBit(GlobalMask(Now, GlobalObject), GlobalObject,
                                  BitOf(name))
               s1 == GlobalObtain(s0, name)
               m1 == Try(Now, name)
           IN  /\ HasBit(s0.heap, GlobalObject, BitOf(name))
               /\ s0.objs = ecma_builtin_objects
               /\ OnlyMaskDiffers(s0.heap, heap, GlobalObject)
               /\ ~m1.oom =>
                    /\ GlobalInstall(s1, GlobalObject, name).heap = m1.heap
                    /\ GlobalInstall(s1, GlobalObject, name).fatal = m1.fatal
               /\ NoneAndNothing(s0, name)
               /\ NoneAndNothing(s1, name)
  /\ ret.op \in WithinAt =>
       ret.res = "fatal"
         \/ /\ ret.res = "none"
            /\ CountNamed(heap, ret.out, ret.arg) = 1
            /\ HasBit(heap, ret.out, BitOf(ret.arg))

\* C23 witness: the lookup of parseInt that arrived when the function
\* object was made but not yet a property returned none, and the Global
\* object has the one property.
C23_Witness ==
  /\ ret.op = "try, value obtained" /\ ret.arg = "PARSE_INT"
  /\ ret.res = "none"
  /\ CountNamed(heap, ret.out, "PARSE_INT") = 1
  /\ heap[heap[ret.out].props[1].value.o].type = "BUILT_IN_FUNCTION"
  /\ \A c \in DOMAIN heap :
       heap[c].type = "BUILT_IN_FUNCTION" =>
         heap[ret.out].props[1].value.o = c

\* ------------------------------------------------------------------ C24
\* The names whose property is an object of the registry.
NamespaceNames == {name \in TableNames : NamespaceId(name) # "NONE"}

\* A data property with the attributes the function starts from: writable,
\* not enumerable, configurable.
DefaultData(name, value) ==
  [name |-> name, kind |-> "data", value |-> value,
   get |-> NULL, set |-> NULL, writable |-> TRUE, enumerable |-> FALSE,
   configurable |-> TRUE]

\* C24: the lazy instantiation of Object, Function, Array, String, Boolean,
\* Number, Math (and CompactProfileError under the compact profile) on the
\* Global object installs a data property whose value is the object get
\* returns for the id of that name, writable, not enumerable and
\* configurable; the property of a routine has the same attributes.
C24_NamespaceProperties ==
  (Running /\ GlobalObject # NULL) =>
    /\ NamespaceNames =
         {"OBJECT_UL", "FUNCTION_UL", "ARRAY_UL", "STRING_UL", "BOOLEAN_UL",
          "NUMBER_UL", "MATH_UL"}
           \cup (IF compact_profile THEN {"COMPACT_PROFILE_ERROR_UL"} ELSE {})
    /\ \A name \in NamespaceNames \cup RoutineNames :
         Untouched(name) =>
           LET m1 == Try(Now, name)
           IN  ~m1.oom =>
                 /\ m1.fatal = "none" /\ m1.res = "prop"
                 /\ CountNamed(m1.heap, GlobalObject, name) = 1
                 /\ m1.heap[GlobalObject].props[1]
                      = DefaultData(name, m1.heap[GlobalObject].props[1].value)
                 /\ IF name \in RoutineNames
                    THEN m1.heap[RoutineObjectOf(m1, name)].type = "BUILT_IN_FUNCTION"
                    ELSE LET g == ecma_builtin_get(m1, NamespaceId(name))
                         IN  /\ m1.heap[GlobalObject].props[1].value = ObjectValue(g.out)
                             /\ g.out = m1.objs[NamespaceId(name)]
                             /\ g.objs = m1.objs
                             /\ m1.heap[g.out].built_in_id = NamespaceId(name)
                             /\ ecma_builtin_objects[NamespaceId(name)] # NULL
                                  => g.out = ecma_builtin_objects[NamespaceId(name)]

\* C24 witness: the property Object of the Global object holds the Object
\* constructor of the registry.
C24_Witness ==
  /\ ret.op = "try" /\ ret.arg = "OBJECT_UL" /\ ret.res = "prop"
  /\ ecma_builtin_objects["OBJECT"] # NULL
  /\ heap[ret.out].props[1]
       = DefaultData("OBJECT_UL", ObjectValue(ecma_builtin_objects["OBJECT"]))

\* ------------------------------------------------------------------ C25
\* C25: outside the compact profile the lazy instantiation of Date, RegExp,
\* JSON or an Error constructor on the Global object ends in the fatal "not
\* implemented": the call returns nothing, neither none nor a property nor
\* a completion value, and the object gets no property.
C25_FullProfileNotImplemented ==
  /\ (~compact_profile /\ Running /\ GlobalObject # NULL) =>
       \A name \in ThrowerNames :
         LET m1 == Try(Now, name)
         IN  /\ Untouched(name)
             /\ m1.fatal = "unimplemented" /\ ~m1.oom
             /\ m1.res \notin {"none", "prop"}
             /\ m1.heap[GlobalObject].props = heap[GlobalObject].props
             /\ DOMAIN m1.heap = DOMAIN heap
             /\ m1.objs = ecma_builtin_objects
  /\ (~compact_profile /\ ret.op = "try" /\ ret.arg \in ThrowerNames) =>
       /\ fatal = "unimplemented" /\ ret.res = "fatal"
       /\ CountNamed(heap, ret.out, ret.arg) = 0

\* C25 witness: outside the compact profile the lookup of Date on the Global
\* object has stopped the process, and the object has no property Date.
C25_Witness ==
  /\ ~compact_profile
  /\ ret.op = "try" /\ ret.arg = "DATE_UL"
  /\ fatal = "unimplemented" /\ ret.res = "fatal"
  /\ ret.out = ecma_builtin_objects["GLOBAL"]
  /\ CountNamed(heap, ret.out, "DATE_UL") = 0

\* ------------------------------------------------------------------ C26
\* One argument list of each kind: none, a number, and an object whose
\* conversion to a number throws.
HandedArgs == {<<>>, <<NumberValue("1")>>, <<ScriptObject("throws")>>}

\* The dispatcher returned what the handler returned, and the handler is
\* the one call that was made.
SameReturn(r, h) ==
  /\ r.fatal = h.fatal /\ r.oom = h.oom
  /\ ~Dead(h) =>
       /\ r.res = h.res
       /\ r.res.type \in {"normal", "throw"}
       /\ r.call = h.call
       /\ r.heap = h.heap /\ r.objs = h.objs

\* C26: the call dispatcher and the construct dispatcher return to their
\* caller the completion value, normal or throw, that the routine, the call
\* handler or the construct handler returned, as it is, and call no other
\* handler after it.
C26_CompletionHandedOn ==
  /\ (Running /\ fatal = "none") =>
       \A c \in DOMAIN heap, arguments_list \in HandedArgs :
         IF heap[c].type = "BUILT_IN_FUNCTION"
         THEN SameReturn(
                ecma_builtin_dispatch_call(Now, c, SimpleValue("undefined"),
                                           arguments_list, Len(arguments_list)),
                ecma_builtin_global_dispatch_routine(
                  Now, RoutineIdField(heap[c].routine_id),
                  SimpleValue("undefined"), arguments_list, Len(arguments_list)))
         ELSE (heap[c].type = "FUNCTION" /\ IsSingleton(c)) =>
                /\ SameReturn(
                     ecma_builtin_dispatch_call(Now, c, SimpleValue("undefined"),
                                                arguments_list, Len(arguments_list)),
                     EnterVariant(Now, "call", heap[c].built_in_id, "NONE"))
                /\ SameReturn(
                     ecma_builtin_dispatch_construct(Now, c, arguments_list,
                                                     Len(arguments_list),
                                                     heap[c].built_in_id),
                     EnterVariant(Now, "construct", heap[c].built_in_id, "NONE"))
  /\ (ret.op \in {"call", "construct"} /\ fatal = "none") =>
       /\ ret.res.type \in {"normal", "throw"}
       /\ (ret.out.kind = "routine" /\ compact_profile
             /\ ret.out.name \notin {"IS_NAN", "IS_FINITE"})
            => ret.res = ThrowCompletion(
                           ObjectValue(ecma_builtin_objects["COMPACT_PROFILE_ERROR"]))
       /\ (ret.out.kind \in {"call", "construct"} /\ IsSingleton(ret.arg))
            => ret.res = VariantCompletion(ret.arg)

\* C26 witness: the CompactProfileError object was called as a function
\* and the caller got the throw of its call handler.
C26_Witness ==
  /\ ret.op = "call" /\ fatal = "none"
  /\ heap[ret.arg].built_in_id = "COMPACT_PROFILE_ERROR"
  /\ ret.out.kind = "call" /\ ret.out.owner = "COMPACT_PROFILE_ERROR"
  /\ ret.res = ThrowCompletion(ObjectValue(ret.arg))

\* ------------------------------------------------------------------ C27
\* C27 (as stated): every object flagged as built-in, so every object the
\* property lookup calls the lazy instantiation for, records a built-in id
\* and is the object the registry holds for that id, and the lookup never
\* fails an entry assertion of the lazy instantiation or a read of the id.
C27_LookupPreconditions ==
  /\ Running =>
       \A c \in DOMAIN heap :
         heap[c].is_builtin =>
           /\ heap[c].built_in_id \in Ids
           /\ ecma_builtin_objects[heap[c].built_in_id] = c
  /\ ret.op = "lookup" => fatal \notin {"assert", "crash"}

\* ------------------------------------------------------------------ C28
\* The objects of the registry have, in the machine m1 after a call, the
\* number of references they had before it; an object the call added to the
\* registry has the one reference of its slot.
SingletonRefsKept(m1) ==
  \A id \in Ids :
    m1.objs[id] # NULL =>
      m1.heap[m1.objs[id]].refs
        = IF ecma_builtin_objects[id] = m1.objs[id]
          THEN heap[m1.objs[id]].refs ELSE 1

\* C28: a lazy instantiation on the Global object that returns, and the
\* creation of a routine's function object, leave the number of references
\* of every object of the registry as it was: what get handed out
\* (Function.prototype, the object of a name, the CompactProfileError
\* object) has been given up again.  The function object of a routine's
\* property has no reference and is reachable through the property; the one
\* ecma_builtin_make_function_object_for_routine returns has the reference
\* of its caller only.
C28_ReferenceNeutral ==
  (Running /\ GlobalObject # NULL) =>
    /\ \A name \in TableNames \cup OtherNames :
         LET m1 == Try(Now, name)
         IN  (m1.fatal = "none" /\ ~m1.oom) =>
               /\ SingletonRefsKept(m1)
               /\ (m1.res = "prop" /\ name \in RoutineNames) =>
                    /\ RoutineObjectOf(m1, name) \notin DOMAIN heap
                    /\ m1.heap[RoutineObjectOf(m1, name)].refs = 0
                    /\ RoutineObjectOf(m1, name) \in Live(m1.heap)
    /\ \A name \in RoutineNames :
         LET m2 == ecma_builtin_make_function_object_for_routine(
                     Now, "GLOBAL", MagicId(name), RoutineLength(name))
         IN  (m2.fatal = "none" /\ ~m2.oom) =>
               /\ SingletonRefsKept(m2)
               /\ m2.out \notin DOMAIN heap
               /\ m2.heap[m2.out].refs = 1

\* C28 witness: the lookup of Object on the Global object has returned its
\* property, and the Object constructor, which get handed out, has the
\* reference of its slot only; and the same for a routine, whose function
\* object has no reference.
C28_Witness ==
  /\ ret.op = "try" /\ ret.res = "prop" /\ fatal = "none"
  /\ \/ /\ ret.arg = "OBJECT_UL"
        /\ heap[ecma_builtin_objects["OBJECT"]].refs = 1
     \/ /\ ret.arg = "PARSE_INT"
        /\ heap[RoutineObjectOf(Now, "PARSE_INT")].refs = 0
        /\ heap[ecma_builtin_objects["FUNCTION_PROTOTYPE"]].refs = 1

\* ------------------------------------------------------------------ C29
\* The machine m1 after an operation has every populated slot as it was ...
SlotsKept(m1) ==
  \A id \in AllBuiltinIds :
    ecma_builtin_objects[id] # NULL => m1.objs[id] = ecma_builtin_objects[id]

\* ... and no slot changed but those of the prototype chain of id.
OnlyChainOf(m1, id) ==
  \A a \in AllBuiltinIds \ ChainOf(id) : m1.objs[a] = ecma_builtin_objects[a]

\* Whatever operation of the subsystem is called in a state between init
\* and teardown, the populated slots are kept, and get and is change the
\* slots of the id's prototype chain only.
OperationsKeepSlots ==
  Running =>
    /\ \A id \in Ids :
         /\ SlotsKept(ecma_builtin_get(Now, id))
         /\ OnlyChainOf(ecma_builtin_get(Now, id), id)
         /\ \A obj_p \in DOMAIN heap :
              /\ SlotsKept(ecma_builtin_is(Now, obj_p, id))
              /\ OnlyChainOf(ecma_builtin_is(Now, obj_p, id), id)
    /\ GlobalObject # NULL =>
         \A name \in TableNames \cup OtherNames : SlotsKept(Try(Now, name))
    /\ \A name \in RoutineNames :
         SlotsKept(ecma_builtin_make_function_object_for_routine(
                     Now, "GLOBAL", MagicId(name), RoutineLength(name)))
    /\ \A obj_p \in DOMAIN heap, arguments_list \in DispatchArgs :
         /\ SlotsKept(ecma_builtin_dispatch_call(
                        Now, obj_p, value_undefined, arguments_list,
                        Len(arguments_list)))
         /\ \A read \in ReadsOf(obj_p) :
              SlotsKept(ecma_builtin_dispatch_construct(
                          Now, obj_p, arguments_list, Len(arguments_list), read))

\* A step between init and teardown keeps the populated slots.
StepsKeepSlots ==
  (engine = "running" /\ engine' = "running") =>
    \A id \in AllBuiltinIds :
      ecma_builtin_objects[id] \in {NULL, ecma_builtin_objects'[id]}

\* C29: between init and teardown a populated slot is never cleared or
\* replaced, by get, is, the lazy instantiation, the creation of a routine's
\* function object, the call dispatcher or the construct dispatcher; get(id)
\* and is(_, id) populate the slots of id and of the ancestors of id in the
\* prototype chain and change no other slot.
C29_SlotsStable == []OperationsKeepSlots /\ [][StepsKeepSlots]_vars

\* C29 witness: with the slots of the Global object and of its prototype
\* populated and others empty, a built-in has been called or constructed and
\* has returned a completion value.
C29_Witness ==
  /\ ret.op \in {"call", "construct"} /\ fatal = "none"
  /\ ecma_builtin_objects["GLOBAL"] # NULL
  /\ ecma_builtin_objects["OBJECT_PROTOTYPE"] # NULL
  /\ ecma_builtin_objects["FUNCTION_PROTOTYPE"] # NULL
  /\ ecma_builtin_objects["MATH"] = NULL

\* ------------------------------------------------------------------ C30
\* The sizes of the table of names, without and with the compact profile,
\* and the number of bits of the mask.
TableSizeFull == 29
TableSizeCompact == 30
MaskBits == 32

\* C30: the table of the Global object's property names has 29 entries, 30
\* under the compact profile; the binary search maps each of its names to
\* its own index, below 32, so no two names share a bit of the mask; every
\* name of the table has a case of the switch, so the lazy instantiation of
\* a name of the table never ends in the "unreachable" of the default
\* branch; and every routine of the routine table is a name of the table.
C30_TableComplete ==
  /\ ecma_builtin_global_property_number(compact_profile)
       = IF compact_profile THEN TableSizeCompact ELSE TableSizeFull
  /\ Cardinality(TableNames) = ecma_builtin_global_property_number(compact_profile)
  /\ \A name \in TableNames :
       /\ BitOf(name) >= 0 /\ BitOf(name) < MaskBits
       /\ GlobalPropertyNames(compact_profile)[BitOf(name) + 1] = name
       /\ \A other \in TableNames \ {name} :
            /\ BitOf(other) # BitOf(name)
            /\ Pow2(BitOf(other)) # Pow2(BitOf(name))
  /\ RoutineNames \subseteq TableNames
  /\ Len(RoutineList) = Cardinality(RoutineNames)
  /\ (Running /\ GlobalObject # NULL) =>
       \A name \in TableNames :
         LET m1 == Try(Now, name)
         IN  /\ m1.fatal # "unreachable"
             /\ (Untouched(name) /\ ~m1.oom) =>
                  \/ m1.fatal = "none" /\ m1.res = "prop"
                  \/ /\ m1.fatal = "unimplemented"
                     /\ ~compact_profile /\ name \in ThrowerNames
  /\ ret.op = "try" => fatal # "unreachable"

\* C30 witness: a name of the table has been looked up on the Global object
\* and has its property, and the bit of its index is set in the mask.
C30_Witness ==
  /\ ret.op = "try" /\ ret.arg \in TableNames /\ ret.res = "prop"
  /\ BitOf(ret.arg) > 0
  /\ HasBit(heap, ret.out, BitOf(ret.arg))
  /\ CountNamed(heap, ret.out, ret.arg) = 1

\* ------------------------------------------------------------------ C31
\* While the loop runs min and max stay inside the array, every index read
\* was inside it, every evaluation of the assertion of the last branch was
\* true, and the loop has taken no more iterations than the array has
\* elements.
LoopSafe ==
  ret.op \in {"loop", "returned"} =>
    /\ fatal = "none"
    /\ ret.out.inrange /\ ret.out.asserted
    /\ ret.out.min >= 0 /\ ret.out.max <= Len(ret.arg.ids) - 1
    /\ ret.out.steps <= Len(ret.arg.ids)
    /\ ret.out.steps > 0 => ret.out.mid >= 0 /\ ret.out.mid < Len(ret.arg.ids)

\* An iteration after which the loop goes on has made the interval from
\* min to max smaller, inside the interval it was.
LoopShrinks ==
  (ret.op = "loop" /\ ret'.op = "loop") =>
    /\ ret'.out.max - ret'.out.min < ret.out.max - ret.out.min
    /\ ret'.out.min >= ret.out.min /\ ret'.out.max <= ret.out.max

\* C31: for every array, of any length from 0 on, in order or not, and
\* every key, the loop of the binary search comes to its end; every
\* iteration makes the interval from min to max smaller, every read of the
\* array is at an index from 0 to the length less one, and the assertion of
\* the last branch, that the element read is less than the key, is true
\* whenever it is evaluated.
C31_LoopTerminates ==
  /\ []LoopSafe
  /\ [][LoopShrinks]_vars
  /\ (ret.op = "loop") ~> (ret.op = "returned")

\* C31 witness: a search in an array of three elements has taken the last
\* branch, then read another index, and has returned.
C31_Witness ==
  /\ ret.op = "returned"
  /\ Len(ret.arg.ids) = MaxLen
  /\ ret.out.steps = 2 /\ ret.out.min = ret.out.max /\ ret.out.min = 2
  /\ ret.out.asserted /\ ret.out.inrange

====
